---- MODULE Spec2Model ----
(***************************************************************************)
(* A model of the native accessor layer of src/accessors.cc: the array     *)
(* length accessor, the function prototype / length accessors and the      *)
(* call-stack accessors (function arguments, function caller).             *)
(*                                                                         *)
(* Four specifications share the variables:                                *)
(*   Spec       the array length accessor (ArrayGetLength, ArraySetLength) *)
(*   SpecFn     the function prototype accessor                            *)
(*   SpecLen    the function length accessor                               *)
(*   SpecStack  the call-stack accessors over a frozen call stack          *)
(***************************************************************************)
EXTENDS Integers, Sequences, FiniteSets, TLC

VARIABLES
  proto,        \* object -> its immediate prototype (an object or NullId)
  length,       \* array -> its length, a number
  elements,     \* array -> its elements: a function from the present indices
  props,        \* object -> its own data properties "length" / "prototype"
  fnproto,      \* function -> its prototype binding, TheHole while it has none
  compiled,     \* function -> shared()->is_compiled()
  sharedLength, \* function -> shared()->length()
  observed,     \* function -> map()->is_observed()
  records,      \* the change records enqueued so far
  nextId,       \* the allocator: the id of the next object it creates
  stack,        \* the JavaScript frames of the call stack, innermost first
  script,       \* the compilation unit: its source, its fields, its line ends
  stores,       \* the FixedArrays of the heap: store id -> map and elements
  views,        \* the JSArrays handed out by line_ends: each names its store
  context,      \* the module context: slot -> value, TheHole while uninitialized
  exports,      \* the accessors installed on the module: name -> AccessorInfo
  last          \* the last accessor call: its inputs, its result, the state before

vars == <<proto, length, elements, props, fnproto, compiled, sharedLength,
          observed, records, nextId, stack, script, stores, views, context,
          exports, last>>

-----------------------------------------------------------------------------
(* Bounds of the model.                                                    *)

\* Array elements live at the indices 0 .. MaxIndex - 1.
MaxIndex == 2
\* At most this many change records are enqueued in one behaviour.
MaxRecords == 2
\* The call stack holds at most this many physical frames.
MaxDepth == 2
\* The stack accessors allocate at most this many objects in one behaviour.
MaxAlloc == 2
\* The source of a compilation unit has at most this many characters.
MaxSource == 2
\* At most this many arrays are handed out by line_ends in one behaviour.
MaxViews == 2

-----------------------------------------------------------------------------
(* Numbers.  A double is NaN, an infinity, or a finite value                *)
(*   (-1)^neg * (hi * 2^16 + lo + (IF half THEN 1/2 ELSE 0))               *)
(* kept in two 16-bit limbs so that 2^32 and its neighbours are exact.     *)

\* The null value, and its name as the end of a prototype chain.
Null == [t |-> "null_sentinel"]

NullId == "null"

Limb == 2^16

NaN == [k |-> "nan", neg |-> FALSE, hi |-> 0, lo |-> 0, half |-> FALSE]

Inf(neg) == [k |-> "inf", neg |-> neg, hi |-> 0, lo |-> 0, half |-> FALSE]

Fin(neg, hi, lo, half) == [k |-> "fin", neg |-> neg, hi |-> hi, lo |-> lo, half |-> half]

\* A small non-negative integer as a number.
Smi(i) == Fin(FALSE, i \div Limb, i % Limb, FALSE)

IsZero(x) == x.k = "fin" /\ x.hi = 0 /\ x.lo = 0 /\ ~x.half

\* C++ operator== on two doubles: NaN equals nothing, -0 equals +0.
DoubleEq(x, y) ==
  /\ x.k # "nan"
  /\ y.k # "nan"
  /\ x.k = y.k
  /\ \/ IsZero(x) /\ IsZero(y)
     \/ x = y

\* NumberToUint32: truncate toward zero, then reduce modulo 2^32.
NumberToUint32(x) ==
  IF x.k # "fin" THEN Smi(0)
  ELSE IF ~x.neg \/ (x.hi % Limb = 0 /\ x.lo = 0) THEN Fin(FALSE, x.hi % Limb, x.lo, FALSE)
  ELSE IF x.lo = 0 THEN Fin(FALSE, Limb - (x.hi % Limb), 0, FALSE)
  ELSE Fin(FALSE, Limb - 1 - (x.hi % Limb), Limb - x.lo, FALSE)

\* The value of a decimal digit character, -1 for any other character.
DigitOf(c) ==
  CASE c = "0" -> 0 [] c = "1" -> 1 [] c = "2" -> 2 [] c = "3" -> 3
    [] c = "4" -> 4 [] c = "5" -> 5 [] c = "6" -> 6 [] c = "7" -> 7
    [] c = "8" -> 8 [] c = "9" -> 9 [] OTHER -> -1

RECURSIVE ParseDigits(_, _, _)
\* The decimal digits s[i..] appended to the magnitude acc = <<hi, lo>>;
\* <<-1, -1>> when a character is no digit.
ParseDigits(s, i, acc) ==
  IF i > Len(s) THEN acc
  ELSE IF DigitOf(s[i]) < 0 THEN <<-1, -1>>
  ELSE ParseDigits(s, i + 1, <<acc[1] * 10 + (acc[2] * 10 + DigitOf(s[i])) \div Limb,
                                (acc[2] * 10 + DigitOf(s[i])) % Limb>>)

HasHalf(body) ==
  Len(body) >= 3 /\ SubSeq(body, Len(body) - 1, Len(body)) = <<".", "5">>

DigitsOf(body) == IF HasHalf(body) THEN SubSeq(body, 1, Len(body) - 2) ELSE body

MagnitudeToNumber(neg, half, ndigits, mag) ==
  IF ndigits = 0 \/ mag[1] < 0 THEN NaN ELSE Fin(neg, mag[1], mag[2], half)

UnsignedToNumber(neg, body) ==
  MagnitudeToNumber(neg, HasHalf(body), Len(DigitsOf(body)),
                    ParseDigits(DigitsOf(body), 1, <<0, 0>>))

\* StringToNumber on  [-] digits [ ".5" ] ; the empty string is +0 and
\* everything else is NaN.
StringToNumber(s) ==
  IF Len(s) = 0 THEN Smi(0)
  ELSE IF s[1] = "-" THEN UnsignedToNumber(TRUE, SubSeq(s, 2, Len(s)))
  ELSE UnsignedToNumber(FALSE, s)

-----------------------------------------------------------------------------
(* Values.                                                                 *)

Undefined == [t |-> "undefined"]

TheHole == [t |-> "the_hole"]

\* No own data property of that name.
Absent == [t |-> "absent"]

NumV(n) == [t |-> "number", n |-> n]

StrV(s) == [t |-> "string", s |-> s]

\* A reference to an object of the heap.
Ref(o) == [t |-> "ref", id |-> o]

\* A JSValue wrapper around a primitive; map tells whether it still has the
\* initial map of the Number function.
Wrapper(map, prim) == [t |-> "jsvalue", map |-> map, value |-> prim]

\* An object with custom conversion behaviour: valueOf lists what its
\* conversion to a primitive does on the first and on the second invocation.
Custom(outcomes) == [t |-> "custom", valueOf |-> outcomes]

Ret(n) == [returns |-> TRUE, n |-> n, kind |-> "none"]

Raise(kind) == [returns |-> FALSE, n |-> NaN, kind |-> kind]

Exception(kind, arg) == [t |-> "exception", kind |-> kind, arg |-> arg]

IsException(r) == r.t = "exception"

Two == Smi(2)

TwoAndHalf == Fin(FALSE, 0, 2, TRUE)

MinusOne == Fin(TRUE, 0, 1, FALSE)

MinusZero == Fin(TRUE, 0, 0, FALSE)

MaxUint32 == Fin(FALSE, Limb - 1, Limb - 1, FALSE)

\* 2^32 + 2
Wrapping == Fin(FALSE, Limb, 2, FALSE)

\* The values handed to the array length setter.
LengthValues ==
  { NumV(Two), NumV(TwoAndHalf), NumV(MinusOne), NumV(MinusZero),
    NumV(MaxUint32), NumV(Wrapping),
    StrV(<<"3">>), StrV(<<"a">>), Undefined,
    Wrapper("number_initial", NumV(Smi(1))),
    Wrapper("other", NumV(TwoAndHalf)),
    Custom(<<Ret(Two), Ret(Two)>>),
    Custom(<<Ret(Two), Ret(TwoAndHalf)>>),
    Custom(<<Ret(TwoAndHalf), Ret(Two)>>),
    Custom(<<Raise("TypeError"), Ret(Two)>>),
    Custom(<<Ret(Two), Raise("Error")>>) }

-----------------------------------------------------------------------------
(* Coercions (the execution collaborator).  A coercion takes the value and *)
(* the number of conversions the value's own code has run so far, and      *)
(* yields the number or the exception, and the new count.                  *)

Coerced(n, calls) == [ok |-> TRUE, n |-> n, kind |-> "none", calls |-> calls]

Threw(kind, calls) == [ok |-> FALSE, n |-> NaN, kind |-> kind, calls |-> calls]

\* What the k-th invocation of the conversion code of a custom object does.
CustomOutcome(value, k) ==
  value.valueOf[IF k > Len(value.valueOf) THEN Len(value.valueOf) ELSE k]

Converted(out, calls) ==
  IF out.returns THEN Coerced(out.n, calls) ELSE Threw(out.kind, calls)

RECURSIVE ToNumber(_, _)
ToNumber(value, calls) ==
  CASE value.t = "number" -> Coerced(value.n, calls)
    [] value.t = "string" -> Coerced(StringToNumber(value.s), calls)
    [] value.t = "undefined" -> Coerced(NaN, calls)
    [] value.t = "null_sentinel" -> Coerced(Smi(0), calls)
    [] value.t = "jsvalue" -> ToNumber(value.value, calls)
    [] value.t = "custom" -> Converted(CustomOutcome(value, calls + 1), calls + 1)
    [] OTHER -> Coerced(NaN, calls)

Uint32Result(r) == IF r.ok THEN Coerced(NumberToUint32(r.n), r.calls) ELSE r

ToUint32(value, calls) == Uint32Result(ToNumber(value, calls))

-----------------------------------------------------------------------------
(* The heap.                                                               *)

Arrays == {"arr", "arrProto"}

Plains == {"objProto", "inh"}

Fns == {"fn", "nfn", "fnProto", "lib", "script", "strictFn", "boundFn"}

Obj == Arrays \cup Plains \cup Fns

IsJSArray(o) == o \in Arrays

IsJSFunction(o) == o \in Fns

\* NULL, the C++ null pointer FindInstanceOf returns.
NoHolder == "NULL"

Index == 0 .. MaxIndex - 1

ElemVal == {"x", "y"}

\* index < n, for an index of the model and a length n.
Below(i, n) == n.hi > 0 \/ i < n.lo

RECURSIVE FindInstanceOf_Farthest(_, _)
\* A walk that does not stop at the first match.
FindInstanceOf_Farthest(kind, obj) ==
  IF obj = NullId THEN NoHolder
  ELSE LET above == FindInstanceOf_Farthest(kind, proto[obj])
       IN  IF above # NoHolder THEN above
           ELSE IF obj \in kind THEN obj ELSE NoHolder

RECURSIVE FindInstanceOf(_, _)
\* The nearest object of the kind on the chain obj, obj's prototype, ...
FindInstanceOf(kind, obj) ==
  IF obj = NullId THEN NoHolder
  ELSE IF obj \in kind THEN obj
  ELSE FindInstanceOf(kind, proto[obj])

RECURSIVE Chain(_)
\* The objects of the prototype chain of obj, obj included.
Chain(obj) == IF obj = NullId THEN {} ELSE {obj} \cup Chain(proto[obj])

-----------------------------------------------------------------------------
(* Collaborators of the object model.                                      *)

\* JSObject::SetLocalPropertyIgnoreAttributes: the own data properties of
\* the heap after defining name with the value on the object.
SetLocalPropertyIgnoreAttributes(object, name, value) ==
  [props EXCEPT ![object] = [@ EXCEPT ![name] = value]]

\* JSArray::SetElementsLength: the elements kept under the new length.
TruncatedElements(array, n) ==
  [i \in {j \in DOMAIN elements[array] : Below(j, n)} |-> elements[array][i]]

\* The state of the heap, as an accessor call finds it.
Snapshot ==
  [length |-> length, elements |-> elements, props |-> props,
   fnproto |-> fnproto, compiled |-> compiled, sharedLength |-> sharedLength,
   records |-> records, nextId |-> nextId,
   script |-> script, stores |-> stores, views |-> views, context |-> context]

\* A heap without a compilation unit, and one without a module.
ScriptDefaults == script = <<>> /\ stores = <<>> /\ views = <<>>

ModuleDefaults == context = <<>> /\ exports = <<>>

Call(op, receiver, value, result, trace) ==
  [op |-> op, receiver |-> receiver, value |-> value, result |-> result,
   trace |-> trace, conversions |-> 0, pre |-> Snapshot]

-----------------------------------------------------------------------------
(* Accessors::ArrayLength                                                  *)

ArrayGetLengthResult(object) ==
  LET holder == FindInstanceOf(Arrays, object)
  IN  IF holder = NoHolder THEN NumV(Smi(0)) ELSE NumV(length[holder])

\* The helper function will 'flatten' Number objects.
FlattenNumber(value) ==
  IF value.t = "number" \/ value.t # "jsvalue" THEN value
  ELSE IF value.map = "number_initial" THEN value.value
  ELSE value

\* The nearest array of the chain taken for the receiver.
ReceiverArray_Nearest(object) == FindInstanceOf(Arrays, object)

\* The array the setter works on: the receiver, when it is a JSArray.
ReceiverArray(object) == IF IsJSArray(object) THEN object ELSE NoHolder

CoercionFailed(kind, uint32_v, coercions, calls) ==
  [ok |-> FALSE, kind |-> kind, uint32_v |-> uint32_v, number_v |-> NaN,
   coercions |-> coercions, conversions |-> calls]

CoercionsDone(uint32_v, number_v, coercions, calls) ==
  [ok |-> TRUE, kind |-> "none", uint32_v |-> uint32_v, number_v |-> number_v,
   coercions |-> coercions, conversions |-> calls]

Uint32Second(n, u) ==
  IF ~u.ok THEN CoercionFailed(u.kind, NaN, <<"ToNumber", "ToUint32">>, u.calls)
  ELSE CoercionsDone(u.n, n.n, <<"ToNumber", "ToUint32">>, u.calls)

NumberFirst(value, n) ==
  IF ~n.ok THEN CoercionFailed(n.kind, NaN, <<"ToNumber">>, n.calls)
  ELSE Uint32Second(n, ToUint32(value, n.calls))

\* The two coercions in the other order.
CoerceLength_NumberFirst(value) == NumberFirst(value, ToNumber(value, 0))

NumberSecond(u, n) ==
  IF ~n.ok THEN CoercionFailed(n.kind, u.n, <<"ToUint32", "ToNumber">>, n.calls)
  ELSE CoercionsDone(u.n, n.n, <<"ToUint32", "ToNumber">>, n.calls)

Uint32First(value, u) ==
  IF ~u.ok THEN CoercionFailed(u.kind, NaN, <<"ToUint32">>, u.calls)
  ELSE NumberSecond(u, ToNumber(value, u.calls))

\* The two coercions of the setter, in the order of the code.  coercions
\* lists the coercions performed; conversions counts the invocations of the
\* value's own conversion code.
CoerceLength(value) == Uint32First(value, ToUint32(value, 0))

\* A comparison of the truncated values, which accepts every finite number.
LengthsAgree_Truncated(uint32_v, number_v) ==
  DoubleEq(uint32_v, NumberToUint32(number_v))

\* uint32_v->Number() == number_v->Number()
LengthsAgree(uint32_v, number_v) == DoubleEq(uint32_v, number_v)

\* The generic number handed on instead of the unsigned one.
NewLength_Number(uint32_v, number_v) == number_v

\* The length handed to JSArray::SetElementsLength.
NewLength(uint32_v, number_v) == uint32_v

InvalidArrayLength == Exception("RangeError", "invalid_array_length")

Heap == [length |-> length, elements |-> elements, props |-> props]

Outcome(result, trace, conversions, heap) ==
  [result |-> result, trace |-> trace, conversions |-> conversions, heap |-> heap]

\* The receiver is no array: define the own data property.
DefineLength(object, value) ==
  Outcome(value, <<"SetLocalProperty">>, 0,
          [Heap EXCEPT !.props = SetLocalPropertyIgnoreAttributes(object, "length", value)])

\* JSArray::SetElementsLength(array_handle, n)
CommitLength(array, c, n) ==
  Outcome(Ref(array), c.coercions \o <<"SetElementsLength">>, c.conversions,
          [Heap EXCEPT !.length = [length EXCEPT ![array] = n],
                       !.elements = [elements EXCEPT ![array] = TruncatedElements(array, n)]])

\* The receiver is an array and c is what the two coercions gave.
SetLengthOfArray(array, c) ==
  IF ~c.ok
  THEN Outcome(Exception(c.kind, "thrown by the conversion"), c.coercions, c.conversions, Heap)
  ELSE IF LengthsAgree(c.uint32_v, c.number_v)
  THEN CommitLength(array, c, NewLength(c.uint32_v, c.number_v))
  ELSE Outcome(InvalidArrayLength, c.coercions \o <<"Throw">>, c.conversions, Heap)

\* What one call of the setter does: its result, the steps it took and the
\* heap it leaves.
ArraySetLengthOutcome(object, value) ==
  IF ReceiverArray(object) = NoHolder THEN DefineLength(object, value)
  ELSE SetLengthOfArray(ReceiverArray(object), CoerceLength(FlattenNumber(value)))

ArrayGetLength(object) ==
  /\ last' = Call("ArrayGetLength", object, Undefined, ArrayGetLengthResult(object), <<>>)
  /\ UNCHANGED <<script, stores, views, context, exports>>
  /\ UNCHANGED <<proto, length, elements, props, fnproto, compiled, sharedLength,
                 observed, records, nextId, stack>>

\* The setter's outcome written to the heap.
ApplyArraySetLength(object, value, out) ==
  /\ length' = out.heap.length
  /\ elements' = out.heap.elements
  /\ props' = out.heap.props
  /\ last' = [Call("ArraySetLength", object, value, out.result, out.trace)
                EXCEPT !.conversions = out.conversions]
  /\ UNCHANGED <<script, stores, views, context, exports>>
  /\ UNCHANGED <<proto, fnproto, compiled, sharedLength, observed, records,
                 nextId, stack>>

ArraySetLength(object, value) ==
  ApplyArraySetLength(object, value, ArraySetLengthOutcome(object, value))

-----------------------------------------------------------------------------
(* The specification of the array length accessor.                         *)

NoProps == [o \in Obj |-> [length |-> Absent, prototype |-> Absent]]

NoCall == [op |-> "none", receiver |-> NoHolder, value |-> Undefined,
           result |-> Undefined, trace |-> <<>>, conversions |-> 0,
           pre |-> [length |-> <<>>, elements |-> <<>>, props |-> <<>>,
                    fnproto |-> <<>>, compiled |-> <<>>, sharedLength |-> <<>>,
                    records |-> <<>>, nextId |-> 0,
                    script |-> <<>>, stores |-> <<>>, views |-> <<>>,
                    context |-> <<>>]]

\* The prototype chains of the built-in objects.
BuiltinProto ==
  [o \in Obj |->
     CASE o = "objProto" -> NullId
       [] o = "arr" -> "arrProto"
       [] o \in Fns \ {"fnProto"} -> "fnProto"
       [] OTHER -> "objProto"]

\* The objects the array length getter is invoked on.
ArrayReceivers == {"arr", "arrProto", "inh", "objProto", "fn"}

\* The objects the array length setter is invoked on: an array, and an object
\* that inherits the accessor (or, with another prototype, does not).
SetterReceivers == {"arr", "inh"}

\* The values the setter is handed on a receiver that is no array.
PropertyValues ==
  { NumV(Two), NumV(TwoAndHalf), StrV(<<"a">>),
    Custom(<<Raise("TypeError"), Ret(Two)>>) }

ValuesFor(o) == IF IsJSArray(o) THEN LengthValues ELSE PropertyValues

\* Every array of length k <= MaxIndex with elements (and holes) below k.
ArrayStates ==
  UNION {{[len |-> Smi(k), elems |-> e] :
            e \in UNION {[S -> ElemVal] : S \in SUBSET (0 .. k - 1)}} :
         k \in 0 .. MaxIndex}

FnDefaults ==
  /\ fnproto = [f \in Fns |-> TheHole]
  /\ compiled = [f \in Fns |-> TRUE]
  /\ sharedLength = [f \in Fns |-> 0]
  /\ observed = [f \in Fns |-> FALSE]
  /\ records = <<>>
  /\ nextId = 0

Init ==
  /\ \E p \in {"arr", "arrProto", "objProto"} : proto = [BuiltinProto EXCEPT !["inh"] = p]
  /\ \E a \in ArrayStates :
       /\ length = [arr |-> a.len, arrProto |-> Smi(0)]
       /\ elements = [arr |-> a.elems, arrProto |-> <<>>]
  /\ props = NoProps
  /\ FnDefaults
  /\ stack = <<>>
  /\ ScriptDefaults
  /\ ModuleDefaults
  /\ last = NoCall

Next ==
  \/ \E o \in ArrayReceivers : ArrayGetLength(o)
  \/ \E o \in SetterReceivers : \E v \in ValuesFor(o) : ArraySetLength(o, v)

Spec == Init /\ [][Next]_vars

-----------------------------------------------------------------------------
(* The array length accessor: properties.                                  *)

SetOnArray == last.op = "ArraySetLength" /\ IsJSArray(last.receiver)

\* The unsigned-32 coercion of the value, and the generic-number coercion
\* that follows it.
Uint32Of(v) == ToUint32(v, 0)

NumberOf(v) == ToNumber(v, Uint32Of(v).calls)

Disagree(v) ==
  /\ Uint32Of(v).ok
  /\ NumberOf(v).ok
  /\ ~DoubleEq(Uint32Of(v).n, NumberOf(v).n)

Agree(v) ==
  /\ Uint32Of(v).ok
  /\ NumberOf(v).ok
  /\ DoubleEq(Uint32Of(v).n, NumberOf(v).n)

ArraysUnchanged == length = last.pre.length /\ elements = last.pre.elements

\* C1: when the unsigned-32 coercion and the generic-number coercion of the
\* value are numerically unequal, ArraySetLength on an array raises a
\* RangeError (no other kind of error) and leaves the length and the elements
\* of the array as they were before the call.
C1_RangeViolation ==
  (SetOnArray /\ Disagree(last.value)) =>
     /\ IsException(last.result)
     /\ last.result.kind = "RangeError"
     /\ ArraysUnchanged
     /\ props = last.pre.props

C1_Witness ==
  /\ SetOnArray
  /\ last.value = NumV(TwoAndHalf)
  /\ IsException(last.result)
  /\ length[last.receiver] = Smi(2)
  /\ DOMAIN elements[last.receiver] = {0, 1}

\* C2: when the two coercions agree on a number n, ArraySetLength on an array
\* commits n as the length, discards every element at an index >= n, leaves
\* the elements at the indices < n unchanged, and a following ArrayGetLength
\* on the array returns n.
C2_CommitRoundTrip ==
  (SetOnArray /\ Agree(last.value)) =>
     LET n == Uint32Of(last.value).n
         a == last.receiver
         before == last.pre.elements[a]
     IN  /\ last.result = Ref(a)
         /\ length[a] = n
         /\ DOMAIN elements[a] = {i \in DOMAIN before : Below(i, n)}
         /\ \A i \in DOMAIN elements[a] : elements[a][i] = before[i]
         /\ ArrayGetLengthResult(a) = NumV(n)
         /\ \A b \in Arrays \ {a} :
              length[b] = last.pre.length[b] /\ elements[b] = last.pre.elements[b]

C2_Witness ==
  /\ SetOnArray
  /\ last.value = Wrapper("number_initial", NumV(Smi(1)))
  /\ last.pre.length[last.receiver] = Smi(2)
  /\ DOMAIN last.pre.elements[last.receiver] = {0, 1}
  /\ length[last.receiver] = Smi(1)
  /\ DOMAIN elements[last.receiver] = {0}

\* C3: on a receiver that is no array, ArraySetLength does not enter the
\* array path (no coercion, no SetElementsLength): it defines the own data
\* property "length" with the given value on the receiver and leaves the
\* length and the elements of every array unchanged.
C3_NonArrayReceiver ==
  (last.op = "ArraySetLength" /\ ~IsJSArray(last.receiver)) =>
     /\ last.trace = <<"SetLocalProperty">>
     /\ last.conversions = 0
     /\ last.result = last.value
     /\ props[last.receiver].length = last.value
     /\ props = [last.pre.props EXCEPT ![last.receiver].length = last.value]
     /\ \A a \in Chain(last.receiver) \cap Arrays :
          length[a] = last.pre.length[a] /\ elements[a] = last.pre.elements[a]
     /\ ArraysUnchanged

C3_Witness ==
  /\ last.op = "ArraySetLength"
  /\ last.receiver = "inh"
  /\ proto["inh"] = "arr"
  /\ last.value = NumV(Two)
  /\ props["inh"].length = NumV(Two)
  /\ length["arr"] = Smi(1)
  /\ DOMAIN elements["arr"] = {0}

\* The arrays of the chain of obj with every other array of the chain above
\* them: the nearest array, if the chain has one.
NearestArrays(obj) ==
  {a \in Chain(obj) \cap Arrays : Chain(obj) \cap Arrays \subseteq Chain(a)}

\* C4: ArrayGetLength never fails: it returns 0 when the prototype chain of
\* the receiver (receiver included) holds no array, and otherwise the length
\* of the nearest array of the chain.
C4_GetLength ==
  (last.op = "ArrayGetLength") =>
     /\ ~IsException(last.result)
     /\ (Chain(last.receiver) \cap Arrays = {} => last.result = NumV(Smi(0)))
     /\ \A a \in NearestArrays(last.receiver) : last.result = NumV(length[a])
     /\ (Chain(last.receiver) \cap Arrays # {} => NearestArrays(last.receiver) # {})
     /\ ArraysUnchanged

C4_Witness ==
  /\ last.op = "ArrayGetLength"
  /\ last.receiver = "inh"
  /\ proto["inh"] = "arr"
  /\ length["arr"] = Smi(2)
  /\ length["arrProto"] = Smi(0)
  /\ last.result = NumV(Smi(2))

\* C5: on an array, ArraySetLength coerces the value twice, the unsigned-32
\* coercion first and the generic-number coercion second; when the first
\* coercion raises, the second is not performed and the exception propagates
\* with the array unchanged; the length is committed only after both.
C5_CoercionOrder ==
  SetOnArray =>
     LET u == Uint32Of(last.value)
         n == NumberOf(last.value)
     IN  /\ last.trace[1] = "ToUint32"
         /\ ~u.ok => /\ last.trace = <<"ToUint32">>
                     /\ last.conversions = u.calls
                     /\ IsException(last.result)
                     /\ last.result.kind = u.kind
                     /\ ArraysUnchanged
         /\ u.ok => /\ Len(last.trace) >= 2
                    /\ last.trace[2] = "ToNumber"
                    /\ last.conversions = n.calls
                    /\ \A i \in 3 .. Len(last.trace) :
                         last.trace[i] \notin {"ToUint32", "ToNumber"}
         /\ (u.ok /\ ~n.ok) => /\ last.trace = <<"ToUint32", "ToNumber">>
                               /\ IsException(last.result)
                               /\ last.result.kind = n.kind
                               /\ ArraysUnchanged
         /\ \A i \in 1 .. Len(last.trace) :
              last.trace[i] = "SetElementsLength" => i = 3
         /\ ~ArraysUnchanged => last.trace = <<"ToUint32", "ToNumber", "SetElementsLength">>

C5_Witness ==
  /\ SetOnArray
  /\ last.value = Custom(<<Ret(TwoAndHalf), Ret(Two)>>)
  /\ last.conversions = 2
  /\ last.result = Ref(last.receiver)
  /\ last.pre.length[last.receiver] = Smi(1)
  /\ length[last.receiver] = Smi(2)

-----------------------------------------------------------------------------
(* Accessors::FunctionPrototype                                            *)

\* JSFunction::should_have_prototype: the constructible functions.
ShouldHavePrototype(function) == function \in {"fn", "script", "strictFn"}

\* JSFunction::has_prototype
HasPrototype(function) == fnproto[function] # TheHole

\* An object the allocator creates; id is the allocator's counter.
Fresh(id) == [t |-> "fresh", id |-> id]

\* Factory::NewFunctionPrototype
NewFunctionPrototype(function) == Fresh(nextId)

\* Object::SameValue: NaN is the same value as NaN, +0 is not -0.
SameValue(a, b) == a = b

\* The walk of the getter has run off the prototype chain.
OffChain == "off the chain"

RECURSIVE WithPrototype(_)
\* while (!function_raw->should_have_prototype()) function_raw = the next
\* function up the chain.
WithPrototype(function) ==
  IF function = NoHolder THEN OffChain
  ELSE IF ShouldHavePrototype(function) THEN function
  ELSE WithPrototype(FindInstanceOf(Fns, proto[function]))

\* The function whose prototype the getter returns: NoHolder when the chain
\* of the receiver holds no function.
PrototypeHolder(object) ==
  IF FindInstanceOf(Fns, object) = NoHolder THEN NoHolder
  ELSE WithPrototype(FindInstanceOf(Fns, object))

FnHeap == [fnproto |-> fnproto, props |-> props, records |-> records, nextId |-> nextId]

FnOutcome(result, trace, heap) == [result |-> result, trace |-> trace, heap |-> heap]

\* A materialization that hands out the new object without binding it.
Materialize_Unbound(function) ==
  FnOutcome(NewFunctionPrototype(function), <<"NewFunctionPrototype">>,
            [FnHeap EXCEPT !.nextId = nextId + 1])

\* The function has no prototype yet: create one and bind it.
Materialize(function) ==
  FnOutcome(NewFunctionPrototype(function), <<"NewFunctionPrototype", "SetPrototype">>,
            [FnHeap EXCEPT !.fnproto = [fnproto EXCEPT ![function] = NewFunctionPrototype(function)],
                           !.nextId = nextId + 1])

ReadPrototype(holder) ==
  IF holder = NoHolder THEN FnOutcome(Undefined, <<>>, FnHeap)
  ELSE IF ~HasPrototype(holder) THEN Materialize(holder)
  ELSE FnOutcome(fnproto[holder], <<>>, FnHeap)

\* What one call of the getter does.
FunctionGetPrototypeOutcome(object) == ReadPrototype(PrototypeHolder(object))

ApplyFn(op, object, value, out) ==
  /\ fnproto' = out.heap.fnproto
  /\ props' = out.heap.props
  /\ records' = out.heap.records
  /\ nextId' = out.heap.nextId
  /\ last' = Call(op, object, value, out.result, out.trace)
  /\ UNCHANGED <<script, stores, views, context, exports>>
  /\ UNCHANGED <<proto, length, elements, compiled, sharedLength, observed, stack>>

\* "There has to be one because we hit the getter": the accessor is found on
\* a function that has the prototype accessor, so the getter is not invoked on
\* a chain whose functions are all without one (ASSERT(function_raw != NULL)).
FunctionGetPrototype(object) ==
  /\ PrototypeHolder(object) # OffChain
  /\ ApplyFn("FunctionGetPrototype", object, Undefined, FunctionGetPrototypeOutcome(object))

\* A setter that replaces the binding of every function.
DegradesToProperty_Never(function) == FALSE

\* if (!function->should_have_prototype())
DegradesToProperty(function) == ~ShouldHavePrototype(function)

\* bool is_observed = *function == *object && function->map()->is_observed();
IsObserved(function, object) == function = object /\ observed[function]

OldValueIn(bindings, function) ==
  IF bindings[function] # TheHole THEN bindings[function] ELSE NewFunctionPrototype(function)

\* The old value read once the new value is bound.
CapturedOldValue_AfterCommit(function, value) ==
  OldValueIn([fnproto EXCEPT ![function] = value], function)

\* The old value, captured before JSFunction::SetPrototype(function, value).
CapturedOldValue(function, value) == OldValueIn(fnproto, function)

ChangeRecord(object, type, name, old_value) ==
  [object |-> object, type |-> type, name |-> name, oldValue |-> old_value]

\* The constructible function gets the new binding; old_value is what was
\* captured when the function is observed.
ReplacePrototype(function, value, is_observed, old_value) ==
  FnOutcome(Ref(function),
            (IF is_observed /\ ~HasPrototype(function) THEN <<"NewFunctionPrototype">> ELSE <<>>)
              \o <<"SetPrototype">>
              \o (IF is_observed /\ ~SameValue(old_value, value)
                  THEN <<"EnqueueChangeRecord">> ELSE <<>>),
            [FnHeap EXCEPT
               !.fnproto = [fnproto EXCEPT ![function] = value],
               !.nextId = IF is_observed /\ ~HasPrototype(function) THEN nextId + 1 ELSE nextId,
               !.records = IF is_observed /\ ~SameValue(old_value, value)
                           THEN Append(records, ChangeRecord(function, "update", "prototype", old_value))
                           ELSE records])

WritePrototype(function, object, value) ==
  IF function = NoHolder THEN FnOutcome(Undefined, <<>>, FnHeap)
  ELSE IF DegradesToProperty(function)
  THEN FnOutcome(value, <<"SetLocalProperty">>,
                 [FnHeap EXCEPT !.props =
                    SetLocalPropertyIgnoreAttributes(object, "prototype", value)])
  ELSE ReplacePrototype(function, value, IsObserved(function, object),
                        CapturedOldValue(function, value))

\* What one call of the setter does.
FunctionSetPrototypeOutcome(object, value) ==
  WritePrototype(FindInstanceOf(Fns, object), object, value)

FunctionSetPrototype(object, value) ==
  /\ Len(records) < MaxRecords
  /\ ApplyFn("FunctionSetPrototype", object, value, FunctionSetPrototypeOutcome(object, value))

-----------------------------------------------------------------------------
(* The specification of the function prototype accessor.                   *)

\* The objects the function prototype accessor is invoked on.
FnReceivers == {"fn", "nfn", "inh", "objProto"}

\* The values the prototype setter is handed: an object, NaN, +0, -0.
PrototypeValues == {Ref("objProto"), NumV(NaN), NumV(Smi(0)), NumV(MinusZero)}

\* The setter may also be handed the current prototype of the function.
SetterValues == PrototypeValues \cup ({fnproto["fn"]} \ {TheHole})

ArrayDefaults ==
  /\ length = [a \in Arrays |-> Smi(0)]
  /\ elements = [a \in Arrays |-> <<>>]

InitFn ==
  /\ \E p \in {"fn", "fnProto"}, q \in {"fn", "nfn", "objProto"} :
       proto = [BuiltinProto EXCEPT !["nfn"] = p, !["inh"] = q]
  /\ ArrayDefaults
  /\ props = NoProps
  /\ fnproto = [f \in Fns |-> TheHole]
  /\ compiled = [f \in Fns |-> TRUE]
  /\ sharedLength = [f \in Fns |-> 0]
  /\ observed \in {[f \in Fns |-> b /\ f = "fn"] : b \in BOOLEAN}
  /\ records = <<>>
  /\ nextId = 0
  /\ stack = <<>>
  /\ ScriptDefaults
  /\ ModuleDefaults
  /\ last = NoCall

NextFn ==
  \/ \E o \in FnReceivers : FunctionGetPrototype(o)
  \/ \E o \in FnReceivers : \E v \in SetterValues : FunctionSetPrototype(o, v)

SpecFn == InitFn /\ [][NextFn]_vars

-----------------------------------------------------------------------------
(* The function prototype accessor: properties.                            *)

\* The functions of the chain of obj with every other function of the chain
\* above them: the nearest function, if the chain has one.
NearestFunctions(obj) ==
  {f \in Chain(obj) \cap Fns : Chain(obj) \cap Fns \subseteq Chain(f)}

Constructibles(obj) == {f \in Chain(obj) \cap Fns : ShouldHavePrototype(f)}

\* The nearest constructible function of the chain of obj.
NearestConstructibles(obj) ==
  {f \in Constructibles(obj) : Constructibles(obj) \subseteq Chain(f)}

FnHeapUnchanged ==
  /\ fnproto = last.pre.fnproto
  /\ props = last.pre.props
  /\ records = last.pre.records
  /\ nextId = last.pre.nextId

\* A following read of "prototype" on the same receiver returns the same
\* value and materializes nothing.
RereadIsIdentical ==
  /\ FunctionGetPrototypeOutcome(last.receiver).result = last.result
  /\ FunctionGetPrototypeOutcome(last.receiver).heap = FnHeap

\* C6: reading "prototype" on a constructible function that has none yet
\* materializes it on the first read and returns the identical object on the
\* next read; on a function that is not constructible every read returns the
\* undefined sentinel.
C6_Original ==
  (last.op = "FunctionGetPrototype" /\ last.receiver \in Fns) =>
     /\ (ShouldHavePrototype(last.receiver) /\ last.pre.fnproto[last.receiver] = TheHole) =>
           /\ last.result = Fresh(last.pre.nextId)
           /\ RereadIsIdentical
     /\ ~ShouldHavePrototype(last.receiver) => last.result = Undefined

\* C6 (amended): a read of "prototype" returns the prototype of the nearest
\* constructible function of the receiver's chain, materialized on the first
\* read only, and the next read returns the identical object; this holds for
\* a receiver that is a function without a prototype of its own too (the
\* walk goes on to the constructible function above it).  The undefined
\* sentinel is returned only when the chain holds no function at all.
C6_PrototypeReads ==
  (last.op = "FunctionGetPrototype") =>
     /\ Chain(last.receiver) \cap Fns = {} => (last.result = Undefined /\ FnHeapUnchanged)
     /\ \A h \in NearestConstructibles(last.receiver) :
          /\ last.result = fnproto[h]
          /\ last.result # TheHole
          /\ last.pre.fnproto[h] = TheHole =>
               /\ last.result = Fresh(last.pre.nextId)
               /\ fnproto = [last.pre.fnproto EXCEPT ![h] = last.result]
          /\ last.pre.fnproto[h] # TheHole =>
               (last.result = last.pre.fnproto[h] /\ FnHeapUnchanged)
     /\ RereadIsIdentical

C6_Witness ==
  /\ last.op = "FunctionGetPrototype"
  /\ last.receiver = "nfn"
  /\ proto["nfn"] = "fn"
  /\ last.pre.fnproto["fn"] = TheHole
  /\ last.result = Fresh(0)
  /\ fnproto["fn"] = Fresh(0)

\* C7: when the nearest function of the receiver's chain is not
\* constructible, FunctionSetPrototype defines the own data property
\* "prototype" with the given value on the receiver, replaces the prototype
\* binding of no function and enqueues no change record.
C7_NotConstructible ==
  (last.op = "FunctionSetPrototype") =>
     \A f \in NearestFunctions(last.receiver) :
        ~ShouldHavePrototype(f) =>
           /\ last.trace = <<"SetLocalProperty">>
           /\ last.result = last.value
           /\ props = [last.pre.props EXCEPT ![last.receiver].prototype = last.value]
           /\ fnproto = last.pre.fnproto
           /\ records = last.pre.records
           /\ nextId = last.pre.nextId

C7_Witness ==
  /\ last.op = "FunctionSetPrototype"
  /\ last.receiver = "nfn"
  /\ proto["nfn"] = "fn"
  /\ observed["fn"]
  /\ last.value = NumV(NaN)
  /\ props["nfn"].prototype = NumV(NaN)
  /\ fnproto["fn"] = Ref("objProto")

ExpectedOldValue(f) ==
  IF last.pre.fnproto[f] # TheHole THEN last.pre.fnproto[f] ELSE Fresh(last.pre.nextId)

\* C8: FunctionSetPrototype on a constructible function binds the new value
\* in every case.  When the receiver is that function and it is observed,
\* exactly one "update" record for "prototype" is enqueued, carrying the
\* value the function had before the call, if and only if that value and the
\* new one are not the same value; otherwise no record is enqueued.
C8_ChangeRecord ==
  (last.op = "FunctionSetPrototype") =>
     \A f \in NearestFunctions(last.receiver) :
        ShouldHavePrototype(f) =>
           /\ fnproto = [last.pre.fnproto EXCEPT ![f] = last.value]
           /\ last.result = Ref(f)
           /\ props = last.pre.props
           /\ (f = last.receiver /\ observed[f] /\ ExpectedOldValue(f) # last.value) =>
                records = Append(last.pre.records,
                                 ChangeRecord(f, "update", "prototype", ExpectedOldValue(f)))
           /\ (f = last.receiver /\ observed[f] /\ ExpectedOldValue(f) = last.value) =>
                records = last.pre.records
           /\ (f # last.receiver \/ ~observed[f]) => records = last.pre.records

C8_Witness ==
  /\ last.op = "FunctionSetPrototype"
  /\ last.receiver = "fn"
  /\ observed["fn"]
  /\ last.pre.fnproto["fn"] = NumV(Smi(0))
  /\ last.value = NumV(MinusZero)
  /\ fnproto["fn"] = NumV(MinusZero)
  /\ Len(last.pre.records) = 1
  /\ records = Append(last.pre.records,
                      ChangeRecord("fn", "update", "prototype", NumV(Smi(0))))

-----------------------------------------------------------------------------
(* Accessors::FunctionLength                                               *)

\* The number of parameters the source of the function declares: what
\* shared()->length() holds once the function is compiled.
ParamCount(function) ==
  CASE function = "fn" -> 2
    [] function = "nfn" -> 1
    [] OTHER -> 0

\* Failure::Exception(): the exception the compiler left pending.
CompileFailure == Exception("pending", "EnsureCompiled")

LenHeap == [compiled |-> compiled, sharedLength |-> sharedLength]

\* Compiler::EnsureCompiled(function, KEEP_EXCEPTION): on success the function
\* is compiled and its length is the declared count; on failure nothing is.
EnsureCompiled(function, succeeds) ==
  IF succeeds
  THEN [LenHeap EXCEPT !.compiled = [compiled EXCEPT ![function] = TRUE],
                       !.sharedLength = [sharedLength EXCEPT ![function] = ParamCount(function)]]
  ELSE LenHeap

\* A getter that takes every function for compiled.
IsCompiled_Always(function) == TRUE

\* function->shared()->is_compiled()
IsCompiled(function) == compiled[function]

\* The length the getter hands back from the heap it reads it in.
LengthIn(heap, function) == NumV(Smi(heap.sharedLength[function]))

CompileAndRead(function, succeeds) ==
  FnOutcome(IF succeeds THEN LengthIn(EnsureCompiled(function, succeeds), function)
            ELSE CompileFailure,
            <<"EnsureCompiled">>,
            EnsureCompiled(function, succeeds))

ReadLength(function, succeeds) ==
  IF function = NoHolder THEN FnOutcome(NumV(Smi(0)), <<>>, LenHeap)
  ELSE IF IsCompiled(function) THEN FnOutcome(LengthIn(LenHeap, function), <<>>, LenHeap)
  ELSE CompileAndRead(function, succeeds)

\* What one call of the getter does; succeeds is what the compiler answers
\* should it be invoked.
FunctionGetLengthOutcome(object, succeeds) ==
  ReadLength(FindInstanceOf(Fns, object), succeeds)

ApplyLen(op, object, out) ==
  /\ compiled' = out.heap.compiled
  /\ sharedLength' = out.heap.sharedLength
  /\ last' = Call(op, object, Undefined, out.result, out.trace)
  /\ UNCHANGED <<script, stores, views, context, exports>>
  /\ UNCHANGED <<proto, length, elements, props, fnproto, observed, records, nextId, stack>>

FunctionGetLength(object, succeeds) ==
  ApplyLen("FunctionGetLength", object, FunctionGetLengthOutcome(object, succeeds))

-----------------------------------------------------------------------------
(* The specification of the function length accessor.                      *)

LenReceivers == {"fn", "nfn", "inh", "objProto"}

\* Functions that may still be uncompiled when the getter is invoked.
Lazy == {"fn", "nfn"}

\* The length a function holds: the declared count once compiled, a count
\* that is not final yet before.
LengthStates ==
  {sl \in [Fns -> 0 .. 2] :
     \A f \in Fns : IF compiled[f] THEN sl[f] = ParamCount(f) ELSE sl[f] <= ParamCount(f)}

InitLen ==
  /\ \E q \in {"fn", "nfn", "objProto"} : proto = [BuiltinProto EXCEPT !["inh"] = q]
  /\ ArrayDefaults
  /\ props = NoProps
  /\ fnproto = [f \in Fns |-> TheHole]
  /\ compiled \in {c \in [Fns -> BOOLEAN] : \A f \in Fns \ Lazy : c[f]}
  /\ sharedLength \in LengthStates
  /\ observed = [f \in Fns |-> FALSE]
  /\ records = <<>>
  /\ nextId = 0
  /\ stack = <<>>
  /\ ScriptDefaults
  /\ ModuleDefaults
  /\ last = NoCall

NextLen == \E o \in LenReceivers, succeeds \in BOOLEAN : FunctionGetLength(o, succeeds)

SpecLen == InitLen /\ [][NextLen]_vars

-----------------------------------------------------------------------------
(* The function length accessor: properties.                               *)

\* C9: FunctionGetLength on a compiled function returns its parameter count
\* and does not invoke the compiler; on an uncompiled function it invokes the
\* compiler first and, when that succeeds, returns the parameter count read
\* after the compilation; when the compilation fails it returns the exception
\* signal and no number.
C9_LengthCompiles ==
  (last.op = "FunctionGetLength") =>
     \A f \in NearestFunctions(last.receiver) :
        /\ last.pre.compiled[f] =>
             /\ last.trace = <<>>
             /\ last.result = NumV(Smi(ParamCount(f)))
             /\ last.result = NumV(Smi(last.pre.sharedLength[f]))
             /\ compiled = last.pre.compiled
             /\ sharedLength = last.pre.sharedLength
        /\ ~last.pre.compiled[f] =>
             /\ last.trace = <<"EnsureCompiled">>
             /\ compiled[f] =>
                  /\ last.result = NumV(Smi(sharedLength[f]))
                  /\ last.result = NumV(Smi(ParamCount(f)))
             /\ ~compiled[f] =>
                  /\ IsException(last.result)
                  /\ last.result.t # "number"
                  /\ sharedLength = last.pre.sharedLength

C9_Witness ==
  /\ last.op = "FunctionGetLength"
  /\ last.receiver = "fn"
  /\ ~last.pre.compiled["fn"]
  /\ last.pre.sharedLength["fn"] = 0
  /\ compiled["fn"]
  /\ last.trace = <<"EnsureCompiled">>
  /\ last.result = NumV(Smi(2))

-----------------------------------------------------------------------------
(* The call stack: JavaScript frames, innermost first.                     *)

\* shared()->native()
IsNative(function) == function \in {"nfn", "fnProto"}

\* JSFunction::IsBuiltin
IsBuiltin(function) == function \in {"nfn", "fnProto", "lib"}

\* shared()->is_toplevel()
IsToplevel(function) == function = "script"

\* shared()->bound()
IsBound(function) == function = "boundFn"

\* shared()->strict_mode() == STRICT
IsStrict(function) == function = "strictFn"

\* scope_info->StackSlotIndex(arguments_string) < 0
NoSlot == [t |-> "no slot"]

ArgumentsMarker == [t |-> "arguments_marker"]

\* An arguments object: NewArgumentsObject(callee, length) with its elements.
ArgumentsObject(callee, elems, id) ==
  [t |-> "arguments", callee |-> callee, elements |-> elems, id |-> id]

\* One JavaScriptFrame.  functions is what GetFunctions yields: the frame's
\* own function first, the functions inlined into it after it.  slot is the
\* stack slot of the arguments variable, parameters are the parameters of the
\* frame AdvanceToArgumentsFrame reaches, slotRefs the values the
\* deoptimization data yields for the inlined function.
Frame(functions, optimized, slot, parameters, slotRefs) ==
  [functions |-> functions, optimized |-> optimized, slot |-> slot,
   parameters |-> parameters, slotRefs |-> slotRefs]

\* Frames of functions whose arguments are not asked for.
PlainFrames ==
  {Frame(<<f>>, FALSE, NoSlot, <<>>, <<>>) : f \in {"nfn", "lib", "script", "strictFn", "boundFn"}}

\* The parameters a frame of fn holds: as many as declared, or fewer.
ActualParameters == {<<"a0", "a1">>, <<"a0">>}

\* Frames whose own function is fn, with nothing inlined.
OwnFrames ==
  {Frame(<<"fn">>, FALSE, sl, ps, <<>>) :
     sl \in {NoSlot, ArgumentsMarker, ArgumentsObject("fn", <<"a0", "a1">>, "frame")},
     ps \in ActualParameters}
  \cup {Frame(<<"fn">>, TRUE, NoSlot, ps, <<>>) : ps \in ActualParameters}

\* Optimized frames with one function inlined.
InlinedFrames ==
  {Frame(<<outer, "fn">>, TRUE, NoSlot, <<>>, refs) :
     outer \in {"fn", "lib", "strictFn"}, refs \in {<<"s0", "s1">>, <<"t0", "t1">>}}
  \cup {Frame(<<"fn", inner>>, TRUE, NoSlot, <<"a0", "a1">>, <<>>) : inner \in {"lib", "strictFn"}}
  \cup {Frame(<<outer, "lib">>, TRUE, NoSlot, <<>>, <<>>) : outer \in {"strictFn", "script"}}
  \cup {Frame(<<"fn">> \o run, TRUE, NoSlot, <<"a0", "a1">>, <<>>) :
          run \in {<<"nfn">>, <<"nfn", "lib">>, <<"lib", "nfn">>}}

Frames == PlainFrames \cup OwnFrames \cup InlinedFrames

RECURSIVE Stacks(_)
\* The call stacks of a depth up to n.
Stacks(n) ==
  IF n = 0 THEN {<<>>}
  ELSE Stacks(n - 1) \cup {<<f>> \o st : f \in Frames, st \in {x \in Stacks(n - 1) : Len(x) = n - 1}}

\* A walk that stops after the innermost frame.
Done_AfterFirst(k) == k > Len(stack) \/ k > 1

\* JavaScriptFrameIterator::done, the iterator being at the k-th frame.
Done(k) == k > Len(stack)

\* One entry of the trace for every frame the walk has fetched.
Walked(n) == [k \in 1 .. n |-> "frame"]

StackHeap == [nextId |-> nextId]

-----------------------------------------------------------------------------
(* Accessors::FunctionArguments                                            *)

RECURSIVE LastIndexOf(_, _, _)
\* for (int i = functions.length() - 1; i >= 0; i--): the first i, counted
\* from 0 as in the code, with functions[i] == *function; -1 when there is none.
LastIndexOf(functions, function, i) ==
  IF i < 0 THEN -1
  ELSE IF functions[i + 1] = function THEN i
  ELSE LastIndexOf(functions, function, i - 1)

IndexIn(frame, function) ==
  LastIndexOf(frame.functions, function, Len(frame.functions) - 1)

\* SlotRefValueBuilder slot_refs(frame, inlined_frame_index, formal count):
\* args_length() is the declared count, and GetNext yields the slots of the
\* deoptimization data of the frame in declaration order.
SlotRefValueBuilder(frame, inlined_frame_index, formal_parameter_count) ==
  [args_length |-> formal_parameter_count,
   GetNext |-> [i \in 1 .. formal_parameter_count |-> frame.slotRefs[i]]]

\* for (int i = 0; i < args_count; ++i) array->set(i, *slot_refs.GetNext())
SlotValues(slot_refs) == [i \in 1 .. slot_refs.args_length |-> slot_refs.GetNext[i]]

\* An arguments object built from the parameters of the physical frame.
ConstructArgumentsObjectForInlinedFunction_FromFrame(k, inlined_function, inlined_frame_index) ==
  FnOutcome(ArgumentsObject(inlined_function, stack[k].parameters, Fresh(nextId)),
            Walked(k) \o <<"ConstructArgumentsObjectForInlinedFunction">>,
            [nextId |-> nextId + 1])

\* A fresh arguments object from the deoptimization data of the frame.
ConstructArgumentsObjectForInlinedFunction(k, inlined_function, inlined_frame_index) ==
  FnOutcome(ArgumentsObject(inlined_function,
                            SlotValues(SlotRefValueBuilder(stack[k], inlined_frame_index,
                                                           ParamCount(inlined_function))),
                            Fresh(nextId)),
            Walked(k) \o <<"ConstructArgumentsObjectForInlinedFunction">>,
            [nextId |-> nextId + 1])

\* A check that takes the marker for an arguments object.
HoldsArguments_Marker(frame) ==
  ~frame.optimized /\ frame.slot # NoSlot

\* if (!frame->is_optimized()) with an arguments variable that is initialized
HoldsArguments(frame) ==
  ~frame.optimized /\ frame.slot # NoSlot /\ frame.slot # ArgumentsMarker

\* A fresh arguments object from the parameters of the arguments frame.
CopyParameters(k, function) ==
  FnOutcome(ArgumentsObject(function, stack[k].parameters, Fresh(nextId)),
            Walked(k) \o <<"AdvanceToArgumentsFrame">>,
            [nextId |-> nextId + 1])

\* The k-th frame holds the function at index i of its functions.
ArgumentsOfFrame(k, function, i) ==
  IF i > 0 THEN ConstructArgumentsObjectForInlinedFunction(k, function, i)
  ELSE IF HoldsArguments(stack[k]) THEN FnOutcome(stack[k].slot, Walked(k), StackHeap)
  ELSE CopyParameters(k, function)

RECURSIVE ArgumentsFrom(_, _)
\* for (JavaScriptFrameIterator it(isolate); !it.done(); it.Advance())
ArgumentsFrom(k, function) ==
  IF Done(k) THEN FnOutcome(Null, Walked(k - 1), StackHeap)
  ELSE IF IndexIn(stack[k], function) >= 0
  THEN ArgumentsOfFrame(k, function, IndexIn(stack[k], function))
  ELSE ArgumentsFrom(k + 1, function)

ReadArguments(function) ==
  IF function = NoHolder THEN FnOutcome(Undefined, <<>>, StackHeap)
  ELSE IF IsNative(function) THEN FnOutcome(Null, <<>>, StackHeap)
  ELSE ArgumentsFrom(1, function)

\* What one call of the getter does.
FunctionGetArgumentsOutcome(object) == ReadArguments(FindInstanceOf(Fns, object))

ApplyStack(op, object, out) ==
  /\ out.heap.nextId <= MaxAlloc
  /\ nextId' = out.heap.nextId
  /\ last' = Call(op, object, Undefined, out.result, out.trace)
  /\ UNCHANGED <<script, stores, views, context, exports>>
  /\ UNCHANGED <<proto, length, elements, props, fnproto, compiled, sharedLength,
                 observed, records, stack>>

FunctionGetArguments(object) ==
  ApplyStack("FunctionGetArguments", object, FunctionGetArgumentsOutcome(object))

-----------------------------------------------------------------------------
(* Accessors::FunctionCaller                                               *)

\* FrameFunctionIterator: frame is the frame frame_iterator_ is at.
Iterator(k, functions, index) == [frame |-> k, functions |-> functions, index |-> index]

GetFunctions(it) ==
  IF Done(it.frame) THEN [it EXCEPT !.functions = <<>>]
  ELSE Iterator(it.frame + 1, stack[it.frame].functions, Len(stack[it.frame].functions) - 1)

\* The iterator as constructed.
FrameFunctionIterator == GetFunctions(Iterator(1, <<>>, 0))

\* What next() returns, NoHolder for NULL, and the iterator after it.
Step(function, it) == [fn |-> function, it |-> it]

\* An iterator that passes over the functions inlined into a frame.
next_OwnOnly(it) ==
  IF Len(it.functions) = 0 THEN Step(NoHolder, it)
  ELSE Step(it.functions[1], GetFunctions(it))

next(it) ==
  IF Len(it.functions) = 0 THEN Step(NoHolder, it)
  ELSE Step(it.functions[it.index + 1],
            IF it.index - 1 < 0 THEN GetFunctions([it EXCEPT !.index = it.index - 1])
            ELSE [it EXCEPT !.index = it.index - 1])

RECURSIVE Find(_, _)
FoundOr(step, function) ==
  IF step.fn = function THEN [found |-> TRUE, it |-> step.it]
  ELSE IF step.fn = NoHolder THEN [found |-> FALSE, it |-> step.it]
  ELSE Find(step.it, function)

\* do { next_function = next(); ... } while (next_function != NULL);
Find(it, function) == FoundOr(next(it), function)

RECURSIVE NonToplevel(_)
NonToplevelOr(step) ==
  IF step.fn = NoHolder THEN step
  ELSE IF IsToplevel(step.fn) THEN NonToplevel(step.it)
  ELSE step

\* do { caller = it.next(); ... } while (caller->shared()->is_toplevel());
NonToplevel(it) == NonToplevelOr(next(it))

RECURSIVE BuiltinRun(_, _, _)
BuiltinRunNext(caller, step) == BuiltinRun(caller, step.fn, step.it)

\* while (potential_caller != NULL && potential_caller->IsBuiltin())
BuiltinRun(caller, potential_caller, it) ==
  IF potential_caller # NoHolder /\ IsBuiltin(potential_caller)
  THEN BuiltinRunNext(potential_caller, next(it))
  ELSE [caller |-> caller, potential_caller |-> potential_caller, it |-> it]

\* A resolution that prefers the caller of the run whatever the run ends in.
ResolvedCaller_Potential(run) ==
  IF run.potential_caller # NoHolder THEN run.potential_caller ELSE run.caller

\* if (!caller->shared()->native() && potential_caller != NULL)
ResolvedCaller(run) ==
  IF ~IsNative(run.caller) /\ run.potential_caller # NoHolder
  THEN run.potential_caller ELSE run.caller

\* A policy that hides strict callers only.
Censored_StrictOnly(caller) ==
  IF IsStrict(caller) THEN Null ELSE Ref(caller)

\* A bound caller and a strict caller are not handed out.
Censored(caller) ==
  IF IsBound(caller) THEN Null
  ELSE IF IsStrict(caller) THEN Null
  ELSE Ref(caller)

CallerOf(run) ==
  FnOutcome(Censored(ResolvedCaller(run)), Walked(run.it.frame - 1), StackHeap)

CallerAfter(step) ==
  IF step.fn = NoHolder THEN FnOutcome(Null, Walked(step.it.frame - 1), StackHeap)
  ELSE CallerOf(BuiltinRun(step.fn, step.fn, step.it))

CallerFrom(found) ==
  IF ~found.found THEN FnOutcome(Null, Walked(found.it.frame - 1), StackHeap)
  ELSE CallerAfter(NonToplevel(found.it))

ReadCaller(function) ==
  IF function = NoHolder THEN FnOutcome(Undefined, <<>>, StackHeap)
  ELSE IF IsNative(function) THEN FnOutcome(Null, <<>>, StackHeap)
  ELSE CallerFrom(Find(FrameFunctionIterator, function))

\* What one call of the getter does.
FunctionGetCallerOutcome(object) == ReadCaller(FindInstanceOf(Fns, object))

FunctionGetCaller(object) ==
  ApplyStack("FunctionGetCaller", object, FunctionGetCallerOutcome(object))

-----------------------------------------------------------------------------
(* The specification of the function arguments and caller accessors.       *)

StackReceivers == {"fn", "nfn", "lib", "inh", "objProto"}

InitStack ==
  /\ proto = [BuiltinProto EXCEPT !["inh"] = "fn"]
  /\ ArrayDefaults
  /\ props = NoProps
  /\ FnDefaults
  /\ stack \in Stacks(MaxDepth)
  /\ ScriptDefaults
  /\ ModuleDefaults
  /\ last = NoCall

NextStack ==
  \/ \E o \in StackReceivers : FunctionGetArguments(o)
  \/ \E o \in StackReceivers : FunctionGetCaller(o)

SpecStack == InitStack /\ [][NextStack]_vars

-----------------------------------------------------------------------------
(* The function arguments and caller accessors: properties.                *)

\* The function has a logical activation: it is a frame's own function or
\* inlined into a frame.
Activated(f) ==
  \E k \in 1 .. Len(stack) : \E i \in 1 .. Len(stack[k].functions) : stack[k].functions[i] = f

StackQuery == last.op \in {"FunctionGetArguments", "FunctionGetCaller"}

\* C10: when the function has no logical activation on the stack,
\* FunctionArguments and FunctionCaller return the null sentinel and raise no
\* exception, after walking the whole stack to exhaustion.
C10_Original ==
  StackQuery =>
     \A f \in NearestFunctions(last.receiver) :
        ~Activated(f) =>
           /\ last.result = Null
           /\ last.trace = Walked(Len(stack))

\* C10 (amended): when the function has no logical activation on the stack,
\* FunctionArguments and FunctionCaller return the null sentinel, raise no
\* exception and allocate nothing.  For a function that is not native this
\* is after every frame of the stack has been walked; for a native function
\* it is at once, with no frame walked.
C10_NoActivation ==
  StackQuery =>
     \A f \in NearestFunctions(last.receiver) :
        ~Activated(f) =>
           /\ last.result = Null
           /\ ~IsException(last.result)
           /\ nextId = last.pre.nextId
           /\ f \in {"nfn", "fnProto"} => last.trace = <<>>
           /\ f \notin {"nfn", "fnProto"} => last.trace = Walked(Len(stack))

C10_Witness ==
  /\ last.op = "FunctionGetCaller"
  /\ last.receiver = "lib"
  /\ Len(stack) = 2
  /\ stack[1].functions = <<"strictFn", "fn">>
  /\ ~Activated("lib")
  /\ last.result = Null
  /\ last.trace = <<"frame", "frame">>

\* The frames that hold an activation of f.
FramesOf(f) ==
  {k \in 1 .. Len(stack) : \E i \in 1 .. Len(stack[k].functions) : stack[k].functions[i] = f}

\* The innermost frame that holds an activation of f.
InnermostFrames(f) == {k \in FramesOf(f) : \A j \in FramesOf(f) : k <= j}

\* The innermost activation of f in the frame is inlined: it is not the
\* frame's own function.
InlinedIn(frame, f) ==
  \E i \in 2 .. Len(frame.functions) : frame.functions[i] = f

\* The function the arguments are asked of: the nearest function of the
\* receiver's chain, when it is not native.
Queried(op) ==
  IF last.op = op
  THEN {f \in NearestFunctions(last.receiver) : f \notin {"nfn", "fnProto"}}
  ELSE {}

FreshArguments(f, elems) ==
  /\ last.result = ArgumentsObject(f, elems, Fresh(last.pre.nextId))
  /\ nextId = last.pre.nextId + 1

\* C11: when the innermost activation of f is inlined into an optimized
\* frame, FunctionArguments(f) returns a freshly built arguments object whose
\* length is the declared parameter count of f and whose i-th element is the
\* i-th value the deoptimization slot resolver yields for that frame.
C11_InlinedArguments ==
  \A f \in Queried("FunctionGetArguments") :
     \A k \in InnermostFrames(f) :
        InlinedIn(stack[k], f) =>
           /\ last.result.t = "arguments"
           /\ Len(last.result.elements) = ParamCount(f)
           /\ \A i \in 1 .. ParamCount(f) : last.result.elements[i] = stack[k].slotRefs[i]
           /\ FreshArguments(f, last.result.elements)

C11_Witness ==
  /\ last.op = "FunctionGetArguments"
  /\ last.receiver = "fn"
  /\ Len(stack) = 2
  /\ stack[1].functions = <<"lib", "fn">>
  /\ stack[1].slotRefs = <<"t0", "t1">>
  /\ stack[2].functions = <<"fn">>
  /\ last.pre.nextId = 1
  /\ last.result = ArgumentsObject("fn", <<"t0", "t1">>, Fresh(1))

\* The frame is not optimized and its arguments variable is initialized.
BindingInitialized(frame) ==
  /\ ~frame.optimized
  /\ frame.slot.t = "arguments"

\* C12: when the innermost activation of f is not inlined, a non-optimized
\* frame whose arguments variable is initialized yields that value itself;
\* in every other case FunctionArguments(f) returns a fresh arguments object
\* holding as many parameters as f declares, read in order from the frame
\* that holds the arguments.
C12_Original ==
  \A f \in Queried("FunctionGetArguments") :
     \A k \in InnermostFrames(f) :
        ~InlinedIn(stack[k], f) =>
           /\ BindingInitialized(stack[k]) => last.result = stack[k].slot
           /\ ~BindingInitialized(stack[k]) =>
                /\ FreshArguments(f, stack[k].parameters)
                /\ Len(last.result.elements) = ParamCount(f)

\* C12 (amended): when the innermost activation of f is not inlined, a
\* non-optimized frame whose arguments variable is initialized yields that
\* value itself and nothing is allocated; in every other case (no such
\* variable, the variable still the marker, an optimized frame) the getter
\* advances to the frame that holds the arguments and returns a fresh
\* arguments object holding, in order, the parameters that frame holds: as
\* many as were passed, which need not be as many as f declares.
C12_OwnArguments ==
  \A f \in Queried("FunctionGetArguments") :
     \A k \in InnermostFrames(f) :
        ~InlinedIn(stack[k], f) =>
           /\ BindingInitialized(stack[k]) =>
                /\ last.result = stack[k].slot
                /\ nextId = last.pre.nextId
                /\ last.trace = Walked(k)
           /\ ~BindingInitialized(stack[k]) =>
                /\ FreshArguments(f, stack[k].parameters)
                /\ last.trace = Walked(k) \o <<"AdvanceToArgumentsFrame">>

C12_Witness ==
  /\ last.op = "FunctionGetArguments"
  /\ last.receiver = "fn"
  /\ Len(stack) = 2
  /\ stack[1].functions = <<"fn">>
  /\ ~stack[1].optimized
  /\ stack[1].slot = ArgumentsMarker
  /\ stack[1].parameters = <<"a0">>
  /\ stack[2].slot.t = "arguments"
  /\ last.result = ArgumentsObject("fn", <<"a0">>, Fresh(0))

Reverse(seq) == [i \in 1 .. Len(seq) |-> seq[Len(seq) + 1 - i]]

RECURSIVE Activations(_)
\* The logical activations of the frames from the k-th on, innermost first:
\* in one frame the inlined functions come before the functions they are
\* inlined into.
Activations(k) ==
  IF k > Len(stack) THEN <<>>
  ELSE Reverse(stack[k].functions) \o Activations(k + 1)

Acts == Activations(1)

\* The position of the innermost activation of f.
Position(f) == {p \in 1 .. Len(Acts) : Acts[p] = f /\ \A j \in 1 .. p - 1 : Acts[j] # f}

\* The first activation outward of p whose function is not top-level.
FirstCaller(p) ==
  {q \in p + 1 .. Len(Acts) :
     ~IsToplevel(Acts[q]) /\ \A j \in p + 1 .. q - 1 : IsToplevel(Acts[j])}

\* The position after the contiguous run of built-ins that starts at q.
RunEnd(q) ==
  {r \in q .. Len(Acts) + 1 :
     /\ \A j \in q .. r - 1 : IsBuiltin(Acts[j])
     /\ r <= Len(Acts) => ~IsBuiltin(Acts[r])}

\* A caller as it is handed out: not at all when it is bound or strict.
Exposed(caller) == IF IsBound(caller) \/ IsStrict(caller) THEN Null ELSE Ref(caller)

\* C13: when the first caller of f that is not top-level is a built-in, the
\* walk skips the contiguous run of built-ins, and whenever an activation
\* that is not a built-in lies outward of the run, the function returned, if
\* any, is that one and no built-in of the run.
C13_Original ==
  \A f \in Queried("FunctionGetCaller") :
     \A p \in Position(f) : \A q \in FirstCaller(p) :
        IsBuiltin(Acts[q]) =>
           \A r \in RunEnd(q) :
              r <= Len(Acts) => (last.result # Null => last.result = Ref(Acts[r]))

\* C13 (amended): when the first caller of f that is not top-level is a
\* built-in, the walk skips the contiguous run of built-ins.  When the
\* outermost built-in of the run is not native and an activation lies outward
\* of the run, the caller is the function of that activation; when the
\* outermost built-in of the run is native, or the stack ends with the run,
\* the caller is that outermost built-in.  The caller is returned unless it
\* is bound or strict.
C13_BuiltinRun ==
  \A f \in Queried("FunctionGetCaller") :
     \A p \in Position(f) : \A q \in FirstCaller(p) :
        IsBuiltin(Acts[q]) =>
           \A r \in RunEnd(q) :
              /\ r > q
              /\ (r <= Len(Acts) /\ ~IsNative(Acts[r - 1])) => last.result = Exposed(Acts[r])
              /\ (r > Len(Acts) \/ IsNative(Acts[r - 1])) => last.result = Exposed(Acts[r - 1])

C13_Witness ==
  /\ last.op = "FunctionGetCaller"
  /\ last.receiver = "fn"
  /\ Len(stack) = 2
  /\ stack[1].functions = <<"fn">>
  /\ stack[2].functions = <<"fn", "lib", "nfn">>
  /\ Acts = <<"fn", "nfn", "lib", "fn">>
  /\ last.result = Ref("fn")

\* The caller the walk resolves for the first caller at q that is not
\* top-level: that caller, or what the run of built-ins it starts leads to.
Resolved(q) ==
  IF ~IsBuiltin(Acts[q]) THEN {Acts[q]}
  ELSE {IF r <= Len(Acts) /\ ~IsNative(Acts[r - 1]) THEN Acts[r] ELSE Acts[r - 1] :
          r \in RunEnd(q)}

\* C14: FunctionCaller(f) returns the null sentinel, not the function and not
\* an exception, whenever the caller the walk resolves is bound or strict;
\* it returns a function only when the resolved caller is neither, and then
\* it returns that caller.
C14_Censoring ==
  \A f \in Queried("FunctionGetCaller") :
     /\ ~IsException(last.result)
     /\ last.result.t = "ref" => (~IsBound(last.result.id) /\ ~IsStrict(last.result.id))
     /\ \A p \in Position(f) : \A q \in FirstCaller(p) : \A c \in Resolved(q) :
          /\ (IsBound(c) \/ IsStrict(c)) => last.result = Null
          /\ ~(IsBound(c) \/ IsStrict(c)) => last.result = Ref(c)

C14_Witness ==
  /\ last.op = "FunctionGetCaller"
  /\ last.receiver = "fn"
  /\ Len(stack) = 2
  /\ stack[1].functions = <<"fn">>
  /\ stack[2].functions = <<"boundFn">>
  /\ last.result = Null
  /\ last.trace = <<"frame", "frame">>

RECURSIVE Results(_, _)
\* What the first n calls of next() return, from the iterator it on.
Results(it, n) ==
  IF n = 0 THEN <<>> ELSE <<next(it).fn>> \o Results(next(it).it, n - 1)

\* C20: FunctionArguments(f) and FunctionCaller(f) resolve f to its innermost
\* logical activation.  The iterator yields the logical activations of the
\* stack innermost first, the functions inlined into a frame before the
\* function of the frame, each once, and "no more functions" from then on;
\* the walk stops at the first activation of f, and the arguments and the
\* caller reported are those of that activation.
C20_InnermostActivation ==
  /\ Results(FrameFunctionIterator, Len(Acts) + 2) = Acts \o <<NoHolder, NoHolder>>
  /\ \A f \in Queried("FunctionGetArguments") :
        \A k \in InnermostFrames(f) :
           /\ SubSeq(last.trace, 1, k) = Walked(k)
           /\ Len(last.trace) <= k + 1
           /\ InlinedIn(stack[k], f) =>
                 \A i \in 1 .. ParamCount(f) : last.result.elements[i] = stack[k].slotRefs[i]
           /\ (~InlinedIn(stack[k], f) /\ BindingInitialized(stack[k])) =>
                 last.result = stack[k].slot
           /\ (~InlinedIn(stack[k], f) /\ ~BindingInitialized(stack[k])) =>
                 last.result.elements = stack[k].parameters
  /\ \A f \in Queried("FunctionGetCaller") :
        \A p \in Position(f) :
           /\ FirstCaller(p) = {} => last.result = Null
           /\ \A q \in FirstCaller(p) : \A c \in Resolved(q) : last.result = Exposed(c)

\* A recursive function, asked for its caller: the inner activation was
\* called by the function itself, the outer one from strict code.
C20_Witness ==
  /\ last.op = "FunctionGetCaller"
  /\ last.receiver = "inh"
  /\ Len(stack) = 2
  /\ stack[1].functions = <<"fn">>
  /\ stack[2].functions = <<"strictFn", "fn">>
  /\ Acts = <<"fn", "fn", "strictFn">>
  /\ Results(FrameFunctionIterator, 5) = <<"fn", "fn", "strictFn", NoHolder, NoHolder>>
  /\ last.result = Ref("fn")

\* C21: FunctionCaller(f) never returns a top-level function: on every call
\* stack, those where a run of built-in callers is followed outward by a
\* top-level activation included, the result is the null sentinel or a
\* function that is not a top-level entry point.
C21_NeverToplevel ==
  \A f \in Queried("FunctionGetCaller") :
     \/ last.result = Null
     \/ last.result.t = "ref" /\ ~IsToplevel(last.result.id)

\* The part of C21 about the callers that are reached without passing over
\* a run of built-ins: the first caller that is not top-level is no built-in.
ToplevelSkipped ==
  \A f \in Queried("FunctionGetCaller") :
     \A p \in Position(f) : \A q \in FirstCaller(p) :
        ~IsBuiltin(Acts[q]) =>
           \/ last.result = Null
           \/ last.result = Ref(Acts[q]) /\ ~IsToplevel(Acts[q])

-----------------------------------------------------------------------------
(* Compilation units (Script) and their line ends.                         *)

\* The characters of a source: an ordinary one and a line terminator.
Chars == {"a", "LF"}

\* A source text: a string of these characters.
SourceText(chars) == [t |-> "string", chars |-> chars]

Sources == {SourceText(chars) : chars \in UNION {[1 .. n -> Chars] : n \in 0 .. MaxSource}}

RECURSIVE LineEndsFrom(_, _)
LineEndsFrom(source, i) ==
  IF i > Len(source) THEN <<>>
  ELSE (IF source[i] = "LF" THEN <<i - 1>> ELSE <<>>) \o LineEndsFrom(source, i + 1)

\* The offsets of the line terminators of the source text, in order.
CalculateLineEnds(source) == LineEndsFrom(source.chars, 1)

\* Heap::empty_fixed_array, and a FixedArray of the heap.
EmptyFixedArray == [t |-> "empty_fixed_array"]

FixedArray(id) == [t |-> "fixed_array", id |-> id]

\* Heap::fixed_cow_array_map and Heap::fixed_array_map
CowMap == "fixed_cow_array_map"

PlainMap == "fixed_array_map"

Store(map, elems) == [map |-> map, elems |-> elems]

\* The elements a FixedArray holds in the heap h.
ElementsIn(h, array) == IF array = EmptyFixedArray THEN <<>> ELSE h.stores[array.id].elems

MapIn(h, array) == IF array = EmptyFixedArray THEN PlainMap ELSE h.stores[array.id].map

ScriptHeap == [script |-> script, stores |-> stores, views |-> views]

\* Script::InitLineEnds: nothing when the line ends are there; otherwise the
\* empty array for a source that is no string, and a new copy-on-write array
\* of the line ends of the source for one that is.
InitLineEnds(h) ==
  IF h.script.line_ends # Undefined THEN h
  ELSE IF h.script.source = Undefined
  THEN [h EXCEPT !.script.line_ends = EmptyFixedArray]
  ELSE [h EXCEPT !.stores = Append(h.stores, Store(CowMap, CalculateLineEnds(h.script.source))),
                 !.script.line_ends = FixedArray(Len(h.stores) + 1)]

JSArray(elems) == [t |-> "jsarray", elements |-> elems]

\* The JSArray handed out: the index of the array among those handed out.
ArrayRef(i) == [t |-> "array", view |-> i]

\* A factory that hands out the array it made last.
NewJSArrayWithElements_Reused(h, elems) ==
  IF h.views = <<>> THEN [h EXCEPT !.views = Append(h.views, JSArray(elems))] ELSE h

\* Factory::NewJSArrayWithElements: a new JSArray over the elements given.
NewJSArrayWithElements(h, elems) == [h EXCEPT !.views = Append(h.views, JSArray(elems))]

LineEndsArray(h) == NewJSArrayWithElements(h, h.script.line_ends)

\* What one call of the line_ends getter does.
ScriptLineEndsGetterOutcome ==
  FnOutcome(ArrayRef(Len(LineEndsArray(InitLineEnds(ScriptHeap)).views)),
            IF script.line_ends = Undefined THEN <<"InitLineEnds">> ELSE <<>>,
            LineEndsArray(InitLineEnds(ScriptHeap)))

ApplyScript(op, value, out) ==
  /\ script' = out.heap.script
  /\ stores' = out.heap.stores
  /\ views' = out.heap.views
  /\ last' = Call(op, "script", value, out.result, out.trace)
  /\ UNCHANGED <<proto, length, elements, props, fnproto, compiled, sharedLength,
                 observed, records, nextId, stack, context, exports>>

ScriptLineEndsGetter ==
  /\ Len(views) < MaxViews
  /\ ApplyScript("ScriptLineEndsGetter", Undefined, ScriptLineEndsGetterOutcome)

\* A store to an element of an array handed out, by the program that got
\* it: a copy-on-write or empty backing store is copied before the write.
WriteElementOutcome(v, i, x) ==
  FnOutcome(x, <<>>,
            IF MapIn(ScriptHeap, views[v].elements) = PlainMap /\ views[v].elements # EmptyFixedArray
            THEN [ScriptHeap EXCEPT !.stores[views[v].elements.id].elems[i] = x]
            ELSE [ScriptHeap EXCEPT
                    !.stores = Append(stores, Store(PlainMap,
                                 [ElementsIn(ScriptHeap, views[v].elements) EXCEPT ![i] = x])),
                    !.views[v].elements = FixedArray(Len(stores) + 1)])

WriteElement(v, i, x) ==
  /\ v \in 1 .. Len(views)
  /\ i \in 1 .. Len(ElementsIn(ScriptHeap, views[v].elements))
  /\ ElementsIn(ScriptHeap, views[v].elements)[i] # x
  /\ ApplyScript("WriteElement", ArrayRef(v), WriteElementOutcome(v, i, x))

-----------------------------------------------------------------------------
(* The script accessors that read one field.                               *)

\* Script::COMPILATION_TYPE_HOST / COMPILATION_TYPE_EVAL
CompilationTypeHost == 0

CompilationTypeEval == 1

\* The SharedFunctionInfo of the function that called eval: its names, the
\* script it belongs to, the source position of the call.
EvalFromShared(name, inferred_name, script_of, position) ==
  [t |-> "shared", name |-> name, inferred_name |-> inferred_name,
   script |-> script_of, position |-> position]

\* The fields the getters project directly.
DirectFields ==
  {"column_offset", "id", "name", "source", "line_offset", "type",
   "compilation_type", "context_data"}

\* Script::cast(JSValue::cast(object)->value())->field(), the compilation
\* type as a Smi.
ScriptFieldGetterOutcome(field) ==
  FnOutcome(IF field = "compilation_type" THEN NumV(Smi(script[field])) ELSE script[field],
            <<>>, ScriptHeap)

ScriptFieldGetter(field) ==
  ApplyScript("Script" \o field \o "Getter", Undefined, ScriptFieldGetterOutcome(field))

\* Script::GetWrapper of the script the eval came from.
ScriptWrapper(of) == [t |-> "script wrapper", script |-> of]

ScriptEvalFromScriptGetterOutcome ==
  FnOutcome(IF script.eval_from_shared # Undefined /\ script.eval_from_shared.script # Undefined
            THEN ScriptWrapper(script.eval_from_shared.script)
            ELSE Undefined,
            <<>>, ScriptHeap)

ScriptEvalFromScriptGetter ==
  ApplyScript("ScriptEvalFromScriptGetter", Undefined, ScriptEvalFromScriptGetterOutcome)

\* The cast of an eval_from_shared that is undefined to a SharedFunctionInfo
\* is undefined behaviour: a failed check, or a read of whatever is there.
UndefinedBehaviour ==
  {[t |-> "undefined behaviour", outcome |-> o] : o \in {"check failure", "arbitrary value"}}

ScriptEvalFromScriptPositionGetterOutcome(ub) ==
  FnOutcome(IF script.compilation_type # CompilationTypeEval THEN Undefined
            ELSE IF script.eval_from_shared = Undefined THEN ub
            ELSE NumV(Smi(script.eval_from_shared.position)),
            <<>>, ScriptHeap)

ScriptEvalFromScriptPositionGetter(ub) ==
  ApplyScript("ScriptEvalFromScriptPositionGetter", Undefined,
              ScriptEvalFromScriptPositionGetterOutcome(ub))

ScriptEvalFromFunctionNameGetterOutcome(ub) ==
  FnOutcome(IF script.eval_from_shared = Undefined THEN ub
            ELSE IF script.eval_from_shared.name # Undefined THEN script.eval_from_shared.name
            ELSE script.eval_from_shared.inferred_name,
            <<>>, ScriptHeap)

ScriptEvalFromFunctionNameGetter(ub) ==
  ApplyScript("ScriptEvalFromFunctionNameGetter", Undefined,
              ScriptEvalFromFunctionNameGetterOutcome(ub))

-----------------------------------------------------------------------------
(* The specification of the script accessors.                              *)

\* A compilation unit as the compiler leaves it: the line ends not computed.
Script(source, compilation_type, eval_from_shared) ==
  [source |-> source, line_ends |-> Undefined,
   id |-> NumV(Smi(1)), name |-> StrV("unit.js"),
   line_offset |-> NumV(Smi(0)), column_offset |-> NumV(Smi(0)),
   type |-> NumV(Smi(2)), compilation_type |-> compilation_type,
   context_data |-> Undefined, eval_from_shared |-> eval_from_shared]

Scripts ==
  {Script(src, CompilationTypeHost, Undefined) : src \in Sources \cup {Undefined}}
  \cup {Script(src, CompilationTypeEval, EvalFromShared(n, StrV("inferred"), StrV("outer.js"), 1)) :
          src \in Sources, n \in {Undefined, StrV("caller")}}

InitScript ==
  /\ proto = BuiltinProto
  /\ ArrayDefaults
  /\ props = NoProps
  /\ FnDefaults
  /\ stack = <<>>
  /\ script \in Scripts
  /\ stores = <<>>
  /\ views = <<>>
  /\ ModuleDefaults
  /\ last = NoCall

NextScript ==
  \/ ScriptLineEndsGetter
  \/ \E v \in 1 .. MaxViews, i \in 1 .. MaxSource : WriteElement(v, i, MaxSource + 1)
  \/ \E field \in DirectFields : ScriptFieldGetter(field)
  \/ ScriptEvalFromScriptGetter
  \/ \E ub \in UndefinedBehaviour : ScriptEvalFromScriptPositionGetter(ub)
  \/ \E ub \in UndefinedBehaviour : ScriptEvalFromFunctionNameGetter(ub)

SpecScript == InitScript /\ [][NextScript]_vars

-----------------------------------------------------------------------------
(* The script accessors: properties.                                       *)

\* The line ends of the source of the unit.
LineEndsOfUnit ==
  IF script.source = Undefined THEN <<>> ELSE CalculateLineEnds(script.source)

\* The sequence the unit has cached, in the heap h.
CachedIn(h) == ElementsIn(h, h.script.line_ends)

\* C15: the line ends are computed from the source on the first read of
\* line_ends only and memoized; every read returns a sequence element-wise
\* equal to them, as a new array object over copy-on-write or empty storage;
\* a store to an array handed out changes neither the cached sequence nor the
\* result of a later read.
C15_LineEnds ==
  /\ (last.op = "ScriptLineEndsGetter") =>
       /\ last.pre.script.line_ends = Undefined =>
            /\ last.trace = <<"InitLineEnds">>
            /\ CachedIn(ScriptHeap) = LineEndsOfUnit
       /\ last.pre.script.line_ends # Undefined =>
            /\ last.trace = <<>>
            /\ script = last.pre.script
            /\ stores = last.pre.stores
       /\ last.result = ArrayRef(Len(last.pre.views) + 1)
       /\ views = Append(last.pre.views, JSArray(script.line_ends))
       /\ ElementsIn(ScriptHeap, views[last.result.view].elements) = LineEndsOfUnit
       /\ MapIn(ScriptHeap, script.line_ends) = CowMap \/ script.line_ends = EmptyFixedArray
  /\ (last.op = "WriteElement") =>
       /\ script = last.pre.script
       /\ CachedIn(ScriptHeap) = CachedIn(last.pre)
       /\ CachedIn(ScriptHeap) = LineEndsOfUnit
       /\ ElementsIn(ScriptHeap, views[last.value.view].elements) # LineEndsOfUnit

C15_Witness ==
  /\ last.op = "ScriptLineEndsGetter"
  /\ script.source = SourceText(<<"LF", "LF">>)
  /\ Len(views) = 2
  /\ ElementsIn(ScriptHeap, views[1].elements) = <<MaxSource + 1, 1>>
  /\ ElementsIn(ScriptHeap, views[2].elements) = <<0, 1>>
  /\ last.trace = <<>>
  /\ stores[script.line_ends.id].map = CowMap

-----------------------------------------------------------------------------
(* Module exports: Accessors::MakeModuleExport.                           *)

\* PropertyAttributes, as the set of the bits that are set.
ReadOnly == "ReadOnly"

DontDelete == "DontDelete"

NoSetter == "no setter"

\* The ReferenceError "not_defined" with the name of the property.
NotDefined(name) ==
  [t |-> "exception", kind |-> "ReferenceError", arg |-> "not_defined", name |-> name]

\* Accessors::MakeModuleExport: the AccessorInfo of one export; the setter
\* is installed unless the attributes say ReadOnly.
MakeModuleExport(name, index, attributes) ==
  [property_attributes |-> attributes, all_can_read |-> TRUE, all_can_write |-> TRUE,
   name |-> name, data |-> index, getter |-> "ModuleGetExport",
   setter |-> IF ReadOnly \in attributes THEN NoSetter ELSE "ModuleSetExport"]

\* The AccessorInfo installed on the module for the property.
ExportOf(property) == CHOOSE i \in 1 .. Len(exports) : exports[i].name = property

\* A read that hands back whatever the slot holds.
ReadExport_Unchecked(value, property) == value

\* ModuleGetExport: the value of the slot, a ReferenceError for the hole.
ReadExport(value, property) ==
  IF value = TheHole THEN NotDefined(property) ELSE value

ModuleHeap == [context |-> context]

\* A read that initializes the binding it finds uninitialized.
ModuleGetExportOutcome_Initializing(property, slot) ==
  FnOutcome(ReadExport(context[slot], property), <<>>,
            [context |-> [context EXCEPT ![slot] = IF @ = TheHole THEN Undefined ELSE @]])

ModuleGetExportOutcome(property, slot) ==
  FnOutcome(ReadExport(context[slot], property), <<>>, ModuleHeap)

\* A store that always goes to the first slot.
ContextSet_First(ctx, slot, value) == [ctx EXCEPT ![1] = value]

\* Context::set
ContextSet(ctx, slot, value) == [ctx EXCEPT ![slot] = value]

\* ModuleSetExport: a ReferenceError for the hole, the store otherwise.
ModuleSetExportOutcome(property, slot, value) ==
  IF context[slot] = TheHole
  THEN FnOutcome(NotDefined(property), <<>>, ModuleHeap)
  ELSE FnOutcome(Undefined, <<>>, [context |-> ContextSet(context, slot, value)])

\* The call of an accessor of the module, as the history records it.
ModuleCall(op, property, value, result) ==
  [op |-> op, receiver |-> "module", property |-> property, value |-> value,
   result |-> result, trace |-> <<>>, conversions |-> 0, pre |-> Snapshot]

ApplyModule(op, property, value, out) ==
  /\ context' = out.heap.context
  /\ last' = ModuleCall(op, property, value, out.result)
  /\ UNCHANGED <<proto, length, elements, props, fnproto, compiled, sharedLength,
                 observed, records, nextId, stack, script, stores, views, exports>>

ModuleGetExport(property) ==
  ApplyModule("ModuleGetExport", property, Undefined,
              ModuleGetExportOutcome(property, exports[ExportOf(property)].data))

\* A store to an export: the setter is called where one is installed.
ModuleSetExport(property, value) ==
  /\ exports[ExportOf(property)].setter = "ModuleSetExport"
  /\ ApplyModule("ModuleSetExport", property, value,
                 ModuleSetExportOutcome(property, exports[ExportOf(property)].data, value))

\* A store to an export that has no setter: no callback runs.
StoreWithoutSetter(property, value) ==
  /\ exports[ExportOf(property)].setter = NoSetter
  /\ ApplyModule("StoreWithoutSetter", property, value,
                 FnOutcome(Undefined, <<>>, ModuleHeap))

\* The module body initializes the binding of a declaration.
InitializeBinding(slot, value) ==
  /\ context[slot] = TheHole
  /\ ApplyModule("InitializeBinding", "", value,
                 FnOutcome(Undefined, <<>>, [context |-> [context EXCEPT ![slot] = value]]))

-----------------------------------------------------------------------------
(* The specification of the module exports.                                *)

MaxSlots == 3

ExportNames == {"a", "b", "c"}

ExportValues == {Undefined, NumV(Smi(1)), StrV("x")}

\* The exports of the module: the slots are not in the order of the names,
\* and "b" is a constant.
ModuleExports ==
  <<MakeModuleExport("a", 2, {DontDelete}),
    MakeModuleExport("b", 3, {ReadOnly, DontDelete}),
    MakeModuleExport("c", 1, {})>>

InitModule ==
  /\ proto = BuiltinProto
  /\ ArrayDefaults
  /\ props = NoProps
  /\ FnDefaults
  /\ stack = <<>>
  /\ ScriptDefaults
  /\ context = [i \in 1 .. MaxSlots |-> TheHole]
  /\ exports = ModuleExports
  /\ last = NoCall

NextModule ==
  \/ \E property \in ExportNames : ModuleGetExport(property)
  \/ \E property \in ExportNames, value \in ExportValues : ModuleSetExport(property, value)
  \/ \E property \in ExportNames, value \in ExportValues : StoreWithoutSetter(property, value)
  \/ \E slot \in 1 .. MaxSlots, value \in ExportValues : InitializeBinding(slot, value)

SpecModule == InitModule /\ [][NextModule]_vars

-----------------------------------------------------------------------------
(* Module exports: properties.                                             *)

\* The slot of the export named, read off the descriptors of the module.
SlotOf(property) ==
  CHOOSE slot \in 1 .. MaxSlots :
    \E i \in 1 .. Len(exports) : exports[i].name = property /\ exports[i].data = slot

\* The export whose value is in the slot.
NameOf(slot) == CHOOSE property \in ExportNames : SlotOf(property) = slot

\* C16: a read of an export whose slot holds the hole raises a ReferenceError
\* that carries the name of the property and yields no value; once a value
\* has been assigned to the slot, a read returns the value assigned last,
\* without error, and reads change no slot.
C16_GetExport ==
  /\ (last.op = "ModuleGetExport") =>
       /\ context = last.pre.context
       /\ last.pre.context[SlotOf(last.property)] = TheHole =>
            /\ IsException(last.result)
            /\ last.result.kind = "ReferenceError"
            /\ last.result.name = last.property
       /\ last.pre.context[SlotOf(last.property)] # TheHole =>
            last.result = last.pre.context[SlotOf(last.property)]
  /\ (last.op = "ModuleSetExport" /\ ~IsException(last.result)) =>
       ModuleGetExportOutcome(last.property, SlotOf(last.property)).result = last.value
  /\ (last.op = "InitializeBinding") =>
       \E slot \in 1 .. MaxSlots :
         /\ last.pre.context[slot] = TheHole
         /\ context[slot] # TheHole
         /\ ModuleGetExportOutcome(NameOf(slot), slot).result = last.value

\* A read of an export not yet initialized, of a module whose other
\* bindings are.
C16_Witness ==
  /\ last.op = "ModuleGetExport"
  /\ last.property = "a"
  /\ last.result = NotDefined("a")
  /\ context = <<Undefined, TheHole, StrV("x")>>

\* C17: a store to an export whose slot holds the hole raises a ReferenceError
\* that carries the name of the property and leaves the slot uninitialized;
\* a store to an initialized slot puts the value into the slot of the
\* descriptor and changes no other slot.
C17_SetExport ==
  (last.op = "ModuleSetExport") =>
    /\ last.pre.context[SlotOf(last.property)] = TheHole =>
         /\ IsException(last.result)
         /\ last.result.kind = "ReferenceError"
         /\ last.result.name = last.property
         /\ context = last.pre.context
    /\ last.pre.context[SlotOf(last.property)] # TheHole =>
         /\ ~IsException(last.result)
         /\ context[SlotOf(last.property)] = last.value
         /\ \A slot \in 1 .. MaxSlots \ {SlotOf(last.property)} :
              context[slot] = last.pre.context[slot]

\* A store to an initialized slot, between an initialized slot and the hole.
C17_Witness ==
  /\ last.op = "ModuleSetExport"
  /\ last.property = "a"
  /\ last.pre.context = <<NumV(Smi(1)), NumV(Smi(1)), TheHole>>
  /\ last.value = StrV("x")
  /\ context = <<NumV(Smi(1)), StrV("x"), TheHole>>

-----------------------------------------------------------------------------
(* String length, function name, and the setters of the read-only          *)
(* accessors.                                                              *)

\* A JSValue: the wrapper object of a primitive value.
JSValueOf(value) == [t |-> "jsvalue", value |-> value]

\* The call of an accessor of a named property, as the history records it.
PropertyCall(op, receiver, property, value, result) ==
  [op |-> op, receiver |-> receiver, property |-> property, value |-> value,
   result |-> result, trace |-> <<>>, conversions |-> 0, pre |-> Snapshot]

\* A callback that reads or writes nothing in the heap.
ApplyNothing(op, receiver, property, value, result) ==
  /\ last' = PropertyCall(op, receiver, property, value, result)
  /\ UNCHANGED <<proto, length, elements, props, fnproto, compiled, sharedLength,
                 observed, records, nextId, stack, script, stores, views, context,
                 exports>>

\* Accessors::StringLengthGetter: the length of a string or of the string a
\* JSValue wraps, 0 for anything else.
StringLengthGetterResult(object) ==
  IF (IF object.t = "jsvalue" THEN object.value ELSE object).t = "string"
  THEN NumV(Smi(Len((IF object.t = "jsvalue" THEN object.value ELSE object).s)))
  ELSE NumV(Smi(0))

StringLengthGetter(object) ==
  ApplyNothing("StringLengthGetter", object, "length", Undefined,
               StringLengthGetterResult(object))

\* The name of the SharedFunctionInfo of a function.
SharedName(function) == StrV(function)

\* Accessors::FunctionGetName
FunctionGetNameResult(object) ==
  IF FindInstanceOf(Fns, object) = NoHolder
  THEN Undefined
  ELSE SharedName(FindInstanceOf(Fns, object))

FunctionGetName(object) ==
  ApplyNothing("FunctionGetName", object, "name", Undefined, FunctionGetNameResult(object))

\* The builds of the engine: with the checks compiled in, and without.
Builds == {"debug", "release"}

\* The process after V8_Fatal.
Fatal == [t |-> "fatal", message |-> "unreachable code"]

\* UNREACHABLE(): fatal in a build with the checks, nothing in one without.
Unreachable(build) == IF build = "debug" THEN Fatal ELSE Undefined

\* The process has not been aborted.
Running == last.result.t # "fatal"

\* Accessors::StringLengthSetter
StringLengthSetter(object, value, build) ==
  /\ Running
  /\ ApplyNothing("StringLengthSetter", object, "length", value, Unreachable(build))

\* The properties of a script wrapper that have an accessor.
ScriptProperties ==
  DirectFields \cup {"line_ends", "eval_from_script", "eval_from_script_position",
                     "eval_from_function_name"}

\* Accessors::Script*Setter
ScriptSetter(property, value, build) ==
  /\ Running
  /\ ApplyNothing("ScriptSetter", "script", property, value, Unreachable(build))

\* The function properties whose descriptor has ReadOnlySetAccessor.
ReadOnlyFunctionProperties == {"length", "name", "arguments", "caller"}

\* Accessors::ReadOnlySetAccessor: the value, nothing stored.
ReadOnlySetAccessor(object, property, value) ==
  /\ Running
  /\ ApplyNothing("ReadOnlySetAccessor", object, property, value, value)

\* A store to an export of a running program.
StoreToExport(property, value) == Running /\ StoreWithoutSetter(property, value)

-----------------------------------------------------------------------------
(* The specification of the writes to the read-only accessors.             *)

StringReceivers == {StrV("ab"), JSValueOf(StrV("abc")), JSValueOf(NumV(Smi(1)))}

WrittenValues == {NumV(Smi(1)), StrV("x")}

InitReadOnly ==
  /\ proto = [BuiltinProto EXCEPT !["inh"] = "fn"]
  /\ ArrayDefaults
  /\ props = NoProps
  /\ FnDefaults
  /\ stack = <<>>
  /\ script \in Scripts
  /\ stores = <<>>
  /\ views = <<>>
  /\ context \in [1 .. MaxSlots -> {TheHole, StrV("x")}]
  /\ exports = ModuleExports
  /\ last = NoCall

NextReadOnly ==
  \/ \E o \in StringReceivers, v \in WrittenValues, build \in Builds :
       StringLengthSetter(o, v, build)
  \/ \E property \in ScriptProperties, v \in WrittenValues, build \in Builds :
       ScriptSetter(property, v, build)
  \/ \E o \in StackReceivers, property \in ReadOnlyFunctionProperties, v \in WrittenValues :
       ReadOnlySetAccessor(o, property, v)
  \/ \E property \in ExportNames, v \in WrittenValues : StoreToExport(property, v)

SpecReadOnly == InitReadOnly /\ [][NextReadOnly]_vars

-----------------------------------------------------------------------------
(* The writes to the read-only accessors: properties.                      *)

ReadOnlyWrites ==
  {"StringLengthSetter", "ScriptSetter", "ReadOnlySetAccessor", "StoreWithoutSetter"}

ReadOnlyKept ==
  (last.op \in {"ReadOnlySetAccessor", "StoreWithoutSetter"}) =>
    /\ last.result.t \notin {"fatal", "exception"}
    /\ Snapshot = last.pre

-----------------------------------------------------------------------------
(* The specification of the getters.                                       *)

\* The call stacks of depth at most one.
GetterStacks == Stacks(1)

GetterScripts ==
  {Script(SourceText(<<"a", "LF">>), CompilationTypeHost, Undefined),
   Script(SourceText(<<"LF">>), CompilationTypeEval,
          EvalFromShared(Undefined, StrV("inferred"), StrV("outer.js"), 1))}

InitGetters ==
  /\ proto = [BuiltinProto EXCEPT !["inh"] = "fn"]
  /\ ArrayDefaults
  /\ props = NoProps
  /\ fnproto = [f \in Fns |-> TheHole]
  /\ \E lazy \in BOOLEAN :
       /\ compiled = [f \in Fns |-> f # "fn" \/ ~lazy]
       /\ sharedLength = [f \in Fns |-> IF f # "fn" \/ ~lazy THEN ParamCount(f) ELSE 0]
  /\ observed = [f \in Fns |-> FALSE]
  /\ records = <<>>
  /\ nextId = 0
  /\ stack \in GetterStacks
  /\ script \in GetterScripts
  /\ stores = <<>>
  /\ views = <<>>
  /\ context = <<StrV("x"), TheHole, NumV(Smi(1))>>
  /\ exports = ModuleExports
  /\ last = NoCall

NextGetters ==
  \/ \E o \in ArrayReceivers : ArrayGetLength(o)
  \/ \E o \in StringReceivers : StringLengthGetter(o)
  \/ \E field \in DirectFields : ScriptFieldGetter(field)
  \/ ScriptEvalFromScriptGetter
  \/ \E ub \in UndefinedBehaviour : ScriptEvalFromScriptPositionGetter(ub)
  \/ \E ub \in UndefinedBehaviour : ScriptEvalFromFunctionNameGetter(ub)
  \/ \E o \in FnReceivers : FunctionGetPrototype(o)
  \/ \E o \in LenReceivers, succeeds \in BOOLEAN : FunctionGetLength(o, succeeds)
  \/ \E o \in StackReceivers : FunctionGetName(o)
  \/ \E o \in StackReceivers : FunctionGetArguments(o)
  \/ \E o \in StackReceivers : FunctionGetCaller(o)
  \/ \E property \in ExportNames : ModuleGetExport(property)

SpecGetters == InitGetters /\ [][NextGetters]_vars

-----------------------------------------------------------------------------
(* The getters: properties.                                                *)

\* The getters other than that of line_ends.
Getters ==
  {"ArrayGetLength", "StringLengthGetter", "ScriptEvalFromScriptGetter",
   "ScriptEvalFromScriptPositionGetter", "ScriptEvalFromFunctionNameGetter",
   "FunctionGetPrototype", "FunctionGetLength", "FunctionGetName",
   "FunctionGetArguments", "FunctionGetCaller", "ModuleGetExport"}
  \cup {"Script" \o field \o "Getter" : field \in DirectFields}

\* The fields of the objects and the slots of the module are as the call
\* found them.
FieldsKept ==
  /\ length = last.pre.length
  /\ elements = last.pre.elements
  /\ props = last.pre.props
  /\ records = last.pre.records
  /\ script = last.pre.script
  /\ stores = last.pre.stores
  /\ context = last.pre.context

BindingsKept == fnproto = last.pre.fnproto

CompilationKept == compiled = last.pre.compiled /\ sharedLength = last.pre.sharedLength

\* C19 as stated: a getter other than that of line_ends leaves every object
\* field, prototype binding, compilation state and module slot unchanged.
C19_Original ==
  (last.op \in Getters) => FieldsKept /\ BindingsKept /\ CompilationKept

\* C19, amended: a getter other than that of line_ends leaves every object
\* field and module slot unchanged; the prototype bindings are unchanged
\* except that FunctionGetPrototype binds a new prototype object to the
\* function it resolves to when that function had none; the compilation
\* state is unchanged except that FunctionGetLength, when it succeeds,
\* compiles the function it resolves to if it was not compiled.
C19_Getters ==
  (last.op \in Getters) =>
    /\ FieldsKept
    /\ (last.op # "FunctionGetPrototype") => BindingsKept
    /\ (last.op = "FunctionGetPrototype" /\ ~BindingsKept) =>
         /\ PrototypeHolder(last.receiver) \in Fns
         /\ last.pre.fnproto[PrototypeHolder(last.receiver)] = TheHole
         /\ fnproto[PrototypeHolder(last.receiver)] = last.result
         /\ last.result.t = "fresh"
         /\ \A f \in Fns \ {PrototypeHolder(last.receiver)} : fnproto[f] = last.pre.fnproto[f]
    /\ (last.op # "FunctionGetLength") => CompilationKept
    /\ (last.op = "FunctionGetLength" /\ ~CompilationKept) =>
         /\ ~IsException(last.result)
         /\ ~last.pre.compiled[FindInstanceOf(Fns, last.receiver)]
         /\ compiled[FindInstanceOf(Fns, last.receiver)]
         /\ \A f \in Fns \ {FindInstanceOf(Fns, last.receiver)} :
              /\ compiled[f] = last.pre.compiled[f]
              /\ sharedLength[f] = last.pre.sharedLength[f]

\* A read of the prototype of a compiled function that had none, through an
\* object that inherits from it, with the function on the stack.
C19_Witness ==
  /\ last.op = "FunctionGetPrototype"
  /\ last.receiver = "inh"
  /\ last.pre.fnproto["fn"] = TheHole
  /\ fnproto["fn"] # TheHole
  /\ compiled["fn"]
  /\ sharedLength["fn"] = ParamCount("fn")
  /\ stack # <<>>

====
